---- MODULE Spec2Model ----
(***************************************************************************)
(* Model of the secure file-sharing client (client/client.go).             *)
(*                                                                         *)
(* The blob store (userlib.Datastore) is a function from UUIDs to values,  *)
(* the key directory (userlib.Keystore) a function from labels to public   *)
(* keys.  Every client operation is one atomic action that applies the     *)
(* operation's result operator (<Name>Res) to the current stores.          *)
(*                                                                         *)
(* Cryptography is symbolic.  A hash or derived key is the tuple of the    *)
(* strings it was computed from, so two hashes are equal exactly when      *)
(* their inputs are equal (byte strings are concatenated with \o, as the   *)
(* code does).  A ciphertext records the key that opens it; an HMAC or a   *)
(* signature records the key and the message it was computed over.  The    *)
(* random IV of SymEnc is not represented.  Random values (uuid.New,       *)
(* RandomBytes) are named by a seed that no earlier call has used: rng     *)
(* counts the draws made in each context (a file, a new file slot, an      *)
(* invitation from a sender to a recipient), and the seed of a call is its *)
(* context followed by that count.                                         *)
(***************************************************************************)
EXTENDS Integers, Sequences, FiniteSets, TLC

VARIABLES
    datastore,      \* userlib.Datastore: UUID -> {Msg, Tag} value
    keystore,       \* userlib.Keystore: label -> public key
    sessions,       \* the User structs returned by InitUser / GetUser
    rng,            \* context -> number of operations that drew random values in it
    issued,         \* invitation tokens returned by CreateInvitation (in flight)
    accepted,       \* <<username, filename>> -> token installed by AcceptInvitation
    revokedTokens,  \* tokens cut off by a successful RevokeAccess
    registered,     \* username -> password of the InitUser call that created it
    tampered,       \* UUIDs whose value the store's adversary has replaced
    calls           \* client -> the AppendToFile call it runs one store access at a time

vars == <<datastore, keystore, sessions, rng, issued, accepted, revokedTokens,
          registered, tampered, calls>>

(***************************************************************************)
(* Bounds of the model.                                                    *)
(***************************************************************************)
Usernames == {"a", "b", "c"}     \* users of Spec
Passwords == {"pw"}              \* registration passwords
Logins    == {"pw", "no"}        \* passwords tried at login
Creators  == {"a"}               \* users who create files
Filenames == {"f"}               \* filenames of Spec
Contents  == {"x", "y"}          \* contents stored and appended in Spec
MaxOps    == 5                   \* operations that draw random values, in all

UsernamesWide == {"a", "b", "c", "d"}   \* users of SpecWide
MaxOpsWide    == 5                      \* operations that draw random values in SpecWide

UsernamesFile == {"a", "b"}      \* users of SpecFile
ContentsFile  == {"", "x", "y"}  \* contents stored and appended in SpecFile
MaxOpsFile    == 5               \* operations that draw random values in SpecFile

UsernamesUser == {"", "a", "b", "c"}   \* usernames tried in SpecUser
MaxTampers    == 1               \* blobs the store's adversary replaces

FilenamesNames == {"f", "g"}     \* filenames of SpecNames
ContentsNames  == {"x"}          \* contents stored and appended in SpecNames
MaxOpsNames    == 4              \* operations that draw random values in SpecNames

UsernamesTamper == {"a", "b"}    \* users of SpecTamper
MaxOpsTamper    == 3             \* operations that draw random values in SpecTamper

UsernamesConcat == {"a", "c", "bc"}      \* users of SpecConcat
FilenamesConcat == {"f", "fb", "afc"}    \* filenames of SpecConcat
MaxOpsConcat    == 3             \* operations that draw random values in SpecConcat

Writer      == "p"               \* the client whose write runs step by step in SpecSteps
Revoker     == "q"               \* the client whose RevokeAccess runs step by step
MaxOpsSteps == 3                 \* operations that draw random values before the calls

Reader     == "r"                \* the client whose LoadFile runs step by step in SpecLoad
MaxOpsLoad == 2                  \* operations that draw random values before the calls

Clients    == {"p", "q"}         \* clients that run AppendToFile step by step in SpecRace
MaxOpsRace == 3                  \* operations that draw random values before the race

(***************************************************************************)
(* Program constants.                                                      *)
(***************************************************************************)
ENCRYPT == "encrypt"
MAC     == "mac"
NilUUID == <<>>
NilKey  == <<>>

(***************************************************************************)
(* userlib primitives.                                                     *)
(***************************************************************************)
Argon2Key(password, salt) == <<"argon2", password, salt>>

HashKDF(sourcekey, purpose) == <<"hkdf">> \o sourcekey \o <<purpose>>

SymEnc(key, plaintext) == [enc |-> key, pt |-> plaintext]

HMACEval(key, msg) == [k |-> key, m |-> msg]

PKEEnc(pubkey, plaintext) == [enc |-> pubkey, pt |-> plaintext]

DSSign(sk, msg) == [k |-> sk, m |-> msg]

\* the random string an operation draws for one purpose; seed names the call
RandomBytes(seed, purpose) == seed \o purpose

NewUUID(seed, purpose) == <<"uuid", RandomBytes(seed, purpose)>>

DatastoreSet(ds, key, value) ==
    [u \in DOMAIN ds \cup {key} |-> IF u = key THEN value ELSE ds[u]]

KeystoreSet(ks, label, key) ==
    [l \in DOMAIN ks \cup {label} |-> IF l = label THEN key ELSE ks[l]]

(***************************************************************************)
(* Helper functions of client.go.                                          *)
(***************************************************************************)
GetUserUUID(user) == Argon2Key(user, "UUID")

\* variant: the username is not the salt of the source key
GetSourceKey_noSalt(user, password) == Argon2Key(password, "")

\* variant: the password does not enter the source key
GetSourceKey_noPassword(user, password) == Argon2Key("", user)

GetSourceKey(user, password) == Argon2Key(password, user)

GetAsynchKeys(tag) ==
    [pk |-> <<"pkeEnc", tag>>, sk |-> <<"pkeDec", tag>>,
     signpriv |-> <<"dsSign", tag>>, signpub |-> <<"dsVerify", tag>>]

GetTwoHASHKDFKeys(sourcekey, purpose1, purpose2) ==
    [key1 |-> HashKDF(sourcekey, purpose1), key2 |-> HashKDF(sourcekey, purpose2)]

GetAccessUUID(user, filename) == HashKDF(user.sourceKey, filename)

GetInvitationUUID(owner, sharee, filename) ==
    HashKDF(owner.sourceKey, owner.Username \o filename \o sharee)

GetAccessKey(sourcekey, filename) == HashKDF(sourcekey, filename)

GetRandomKey(user, salt) == HashKDF(user.sourceKey, salt)

GenerateUUIDVal(msg, tag) == [Msg |-> msg, Tag |-> tag]

EncryptThenMac(txt, key1, key2) ==
    LET msg == SymEnc(key1, txt)
    IN  GenerateUUIDVal(msg, HMACEval(key2, msg))

\* EncryptThenMac under the two keys derived from one source key
Seal(txt, sourcekey) ==
    LET keys == GetTwoHASHKDFKeys(sourcekey, ENCRYPT, MAC)
    IN  EncryptThenMac(txt, keys.key1, keys.key2)

\* a stored value that is not the JSON of a {Msg, Tag} map
RawBytes == [raw |-> "bytes"]

\* json.Unmarshal of a stored value into its Msg and Tag succeeds
UnpackValue(value) == "Msg" \in DOMAIN value

CheckTag(msg, tag, key2) == tag = HMACEval(key2, msg)

\* UnpackValue, CheckTag and Decrypt<T>Msg as every operation chains them
CheckTagAndDecrypt(value, sourcekey) ==
    LET keys == GetTwoHASHKDFKeys(sourcekey, ENCRYPT, MAC)
    IN  IF /\ UnpackValue(value)
           /\ CheckTag(value.Msg, value.Tag, keys.key2)
           /\ value.Msg.enc = keys.key1
        THEN [err |-> FALSE, pt |-> value.Msg.pt]
        ELSE [err |-> TRUE, pt |-> <<>>]

EncryptThenSign(txt, pubkey, sk) ==
    LET ciphertext == PKEEnc(pubkey, txt)
    IN  GenerateUUIDVal(ciphertext, DSSign(sk, ciphertext))

\* variant: the signature is not compared with the sender's verify key
CheckSignature_anySigner(ks, msg, sig, user) == (user \o " signature key") \in DOMAIN ks

\* DSVerify of sig over msg under the verify key the key directory holds
CheckSignature(ks, msg, sig, user) ==
    LET label == user \o " signature key"
    IN  /\ label \in DOMAIN ks
        /\ sig = DSSign(<<"dsSign", ks[label][2]>>, msg)

\* PKEDec with the session's private key
DecryptAsynchMsg(msg, sk) ==
    IF msg.enc = <<"pkeEnc", sk[2]>>
    THEN [err |-> FALSE, pt |-> msg.pt]
    ELSE [err |-> TRUE, pt |-> <<>>]

\* variant: the block names itself as its Next
AddFileToDatabase_selfNext(ds, fileUUID, fileSourceKey, content, nextFileUUID) ==
    DatastoreSet(ds, fileUUID, Seal([Contents |-> content, Next |-> fileUUID], fileSourceKey))

AddFileToDatabase(ds, fileUUID, fileSourceKey, content, nextFileUUID) ==
    DatastoreSet(ds, fileUUID, Seal([Contents |-> content, Next |-> nextFileUUID], fileSourceKey))

GetMetaUUIDAndSourceKey(ds, accessStruct) ==
    IF ~accessStruct.IsOwner
    THEN IF accessStruct.InvitationUUID \notin DOMAIN ds
         THEN [err |-> TRUE, metaUUID |-> NilUUID, metaSourceKey |-> NilKey]
         ELSE LET inv == CheckTagAndDecrypt(ds[accessStruct.InvitationUUID],
                                            accessStruct.InvitationSourcekey)
              IN  IF inv.err
                  THEN [err |-> TRUE, metaUUID |-> NilUUID, metaSourceKey |-> NilKey]
                  ELSE [err |-> FALSE, metaUUID |-> inv.pt.MetaUUID,
                        metaSourceKey |-> inv.pt.MetaSourcekey]
    ELSE [err |-> FALSE, metaUUID |-> accessStruct.MetaUUID,
          metaSourceKey |-> accessStruct.MetaSourcekey]

\* the Access struct literal; fields left out by the caller hold zero values
Access(metaUUID, metaSourcekey, invitationUUID, invitationSourcekey, list, listKey, isOwner) ==
    [MetaUUID |-> metaUUID, MetaSourcekey |-> metaSourcekey,
     InvitationUUID |-> invitationUUID, InvitationSourcekey |-> invitationSourcekey,
     InvitationList |-> list, ListKey |-> listKey, IsOwner |-> isOwner]

(***************************************************************************)
(* Shared prefix of the file operations: open the caller's Access, resolve *)
(* the Metadata and authenticate it.  step tells how far the code got.     *)
(***************************************************************************)
NoMeta == [Start |-> NilUUID, Last |-> NilUUID, FileSourcekey |-> NilKey]

ResolveFail(step) ==
    [err |-> TRUE, step |-> step, access |-> Access(NilUUID, NilKey, NilUUID, NilKey, NilUUID, NilKey, FALSE),
     metaUUID |-> NilUUID, metaSourceKey |-> NilKey, meta |-> NoMeta]

\* accessStruct is the caller's opened Access, m what GetMetaUUIDAndSourceKey
\* returned for it
Located(accessStruct, m) ==
    IF m.err THEN [ResolveFail("invitation") EXCEPT !.access = accessStruct] ELSE
    [err |-> FALSE, step |-> "resolved", access |-> accessStruct,
     metaUUID |-> m.metaUUID, metaSourceKey |-> m.metaSourceKey, meta |-> NoMeta]

\* acc is the caller's Access blob after CheckTag and DecryptAccessMsg
LocateMeta(ds, acc) ==
    IF acc.err THEN ResolveFail("access")
    ELSE Located(acc.pt, GetMetaUUIDAndSourceKey(ds, acc.pt))

ResolveAccess(ds, user, filename) ==
    IF GetAccessUUID(user, filename) \notin DOMAIN ds THEN ResolveFail("noaccess")
    ELSE LocateMeta(ds, CheckTagAndDecrypt(ds[GetAccessUUID(user, filename)],
                                           GetAccessKey(user.sourceKey, filename)))

\* r is what ResolveAccess returned: fetch the Metadata blob, check its tag
\* and decrypt it
AuthenticateMeta(ds, r) ==
    IF r.err THEN r ELSE
    IF r.metaUUID \notin DOMAIN ds THEN [r EXCEPT !.err = TRUE, !.step = "nometa"] ELSE
    LET m == CheckTagAndDecrypt(ds[r.metaUUID], r.metaSourceKey)
    IN  IF m.err THEN [r EXCEPT !.err = TRUE, !.step = "meta"]
        ELSE [r EXCEPT !.step = "meta", !.meta = m.pt]

ResolveMeta(ds, user, filename) == AuthenticateMeta(ds, ResolveAccess(ds, user, filename))

(***************************************************************************)
(* InitUser and GetUser.                                                   *)
(***************************************************************************)
NoUser == [Username |-> "", RSAkey |-> NilKey, Sigkey |-> NilKey, sourceKey |-> NilKey]

\* json.Marshal(User): the unexported sourceKey field is not serialized
MarshalUser(userdata) ==
    [Username |-> userdata.Username, RSAkey |-> userdata.RSAkey, Sigkey |-> userdata.Sigkey]

\* lines 100-136: generate the keys, publish the public ones, store the record
WriteUser(ds, ks, username, password, seed) ==
    LET sourceKey == GetSourceKey(username, password)
        keys == GetAsynchKeys(RandomBytes(seed, "keygen"))
        ks1 == KeystoreSet(ks, username \o " public key", keys.pk)
        ks2 == KeystoreSet(ks1, username \o " signature key", keys.signpub)
        userdata == [Username |-> username, RSAkey |-> keys.sk,
                     Sigkey |-> keys.signpriv, sourceKey |-> sourceKey]
    IN  [err |-> FALSE, user |-> userdata, ks |-> ks2,
         ds |-> DatastoreSet(ds, GetUserUUID(username), Seal(MarshalUser(userdata), sourceKey))]

\* variant: a username that has a User Record is registered again
InitUserRes_again(ds, ks, username, password, seed) ==
    IF username = "" THEN [err |-> TRUE, user |-> NoUser, ds |-> ds, ks |-> ks]
    ELSE WriteUser(ds, ks, username, password, seed)

InitUserRes(ds, ks, username, password, seed) ==
    IF username = "" THEN [err |-> TRUE, user |-> NoUser, ds |-> ds, ks |-> ks] ELSE
    IF GetUserUUID(username) \in DOMAIN ds
    THEN [err |-> TRUE, user |-> NoUser, ds |-> ds, ks |-> ks]
    ELSE WriteUser(ds, ks, username, password, seed)

\* the error GetUser returns with its message
LoginError(msg) == [err |-> TRUE, user |-> NoUser, msg |-> msg]

\* json.Unmarshal into a User leaves the unexported sourceKey at its zero value
UnmarshalUser(pt) ==
    [Username |-> pt.Username, RSAkey |-> pt.RSAkey, Sigkey |-> pt.Sigkey, sourceKey |-> NilKey]

\* variant: the session keeps the zero source key json.Unmarshal left in it
SetSourceKey_unset(userdata, sourceKey) == userdata

\* line 189: userdata.sourceKey = sourceKey
SetSourceKey(userdata, sourceKey) == [userdata EXCEPT !.sourceKey = sourceKey]

\* value is the stored User Record, sourceKey the key derived from the
\* username and the password given
OpenUserRecord(value, username, sourceKey) ==
    LET keys == GetTwoHASHKDFKeys(sourceKey, ENCRYPT, MAC)
    IN  IF ~UnpackValue(value) THEN LoginError("failed to unpack user data") ELSE
        IF ~CheckTag(value.Msg, value.Tag, keys.key2)
        THEN LoginError("data integrity check failed: either wrong credentials or tampering") ELSE
        IF value.Msg.enc # keys.key1 THEN LoginError("failed to unmarshal user data") ELSE
        IF value.Msg.pt.Username # username
        THEN LoginError("retrieved username does not match expected username") ELSE
        [err |-> FALSE, msg |-> "",
         user |-> SetSourceKey(UnmarshalUser(value.Msg.pt), sourceKey)]

GetUserRes(ds, username, password) ==
    IF username = "" THEN LoginError("username cannot be empty") ELSE
    IF GetUserUUID(username) \notin DOMAIN ds THEN LoginError("username does not exist") ELSE
    OpenUserRecord(ds[GetUserUUID(username)], username, GetSourceKey(username, password))

(***************************************************************************)
(* LoadFile.  The loop of the code follows Next until it meets Last; a     *)
(* walk that comes back to a block it has read never ends (diverges).      *)
(***************************************************************************)
\* line 473: content = append(content, fileStruct.Contents...), for the
\* blocks read after this one
PrependContents(contents, rest) ==
    IF rest.err THEN rest ELSE [rest EXCEPT !.content = contents \o rest.content]

RECURSIVE ReadChain(_, _, _, _, _)
ReadChain(ds, currentUUID, endoffile, fileSourceKey, visited) ==
    IF currentUUID = endoffile THEN [err |-> FALSE, content |-> "", diverges |-> FALSE] ELSE
    IF currentUUID \in visited THEN [err |-> TRUE, content |-> "", diverges |-> TRUE] ELSE
    IF currentUUID \notin DOMAIN ds THEN [err |-> TRUE, content |-> "", diverges |-> FALSE] ELSE
    LET block == CheckTagAndDecrypt(ds[currentUUID], fileSourceKey)
    IN  IF block.err THEN [err |-> TRUE, content |-> "", diverges |-> FALSE] ELSE
        PrependContents(block.pt.Contents,
                        ReadChain(ds, block.pt.Next, endoffile, fileSourceKey,
                                  visited \cup {currentUUID}))

\* r is what ResolveMeta returned: walk the blocks from Start to Last
ReadFile(ds, r) ==
    IF r.err THEN [err |-> TRUE, content |-> "", diverges |-> FALSE]
    ELSE ReadChain(ds, r.meta.Start, r.meta.Last, r.meta.FileSourcekey, {})

LoadFileRes(ds, user, filename) == ReadFile(ds, ResolveMeta(ds, user, filename))

(***************************************************************************)
(* StoreFile.                                                              *)
(***************************************************************************)
\* variant: Last names the first block instead of its successor
NewMeta_lastIsStart(fileUUID, nextFileUUID, fileSourceKey) ==
    [Start |-> fileUUID, Last |-> fileUUID, FileSourcekey |-> fileSourceKey]

\* Meta{fileUUID, nextFileUUID, fileSourceKey}
NewMeta(fileUUID, nextFileUUID, fileSourceKey) ==
    [Start |-> fileUUID, Last |-> nextFileUUID, FileSourcekey |-> fileSourceKey]

\* variant: only an owner's Access counts as the file existing
HasAccess_ownerOnly(ds, user, filename) ==
    /\ GetAccessUUID(user, filename) \in DOMAIN ds
    /\ LET acc == CheckTagAndDecrypt(ds[GetAccessUUID(user, filename)],
                                     GetAccessKey(user.sourceKey, filename))
       IN  ~acc.err /\ acc.pt.IsOwner

\* line 213: the branch of StoreFile is chosen by the presence of the Access slot
HasAccess(ds, user, filename) == GetAccessUUID(user, filename) \in DOMAIN ds

\* variant: an overwrite writes where an append would
OverwriteBlockUUID_last(metaStruct) == metaStruct.Last

\* the block an overwrite writes to
OverwriteBlockUUID(metaStruct) == metaStruct.Start

\* variant: an append writes where an overwrite would
AppendBlockUUID_start(metaStruct) == metaStruct.Start

\* the block an append writes to
AppendBlockUUID(metaStruct) == metaStruct.Last

\* the file exists; r is what ResolveMeta returned: write content to one
\* block and make Last the fresh UUID that block names as its Next
OverwriteFile(ds, r, content, seed) ==
    IF r.err THEN [err |-> TRUE, ds |-> ds, drew |-> FALSE] ELSE
    LET newNextUUID == NewUUID(seed, "next")
        ds1 == AddFileToDatabase(ds, OverwriteBlockUUID(r.meta),
                                 r.meta.FileSourcekey, content, newNextUUID)
        metaStruct == [r.meta EXCEPT !.Last = newNextUUID]
    IN  [err |-> FALSE, drew |-> TRUE,
         ds |-> DatastoreSet(ds1, r.metaUUID, Seal(metaStruct, r.metaSourceKey))]

StoreFileRes(ds, user, filename, content, seed) ==
    LET accessUUID == GetAccessUUID(user, filename)
        accessSourceKey == GetAccessKey(user.sourceKey, filename)
    IN  IF HasAccess(ds, user, filename)
        THEN OverwriteFile(ds, ResolveMeta(ds, user, filename), content, seed)
        ELSE LET fileUUID == NewUUID(seed, "file")
                 fileSourceKey == GetRandomKey(user, RandomBytes(seed, "filekey"))
                 nextFileUUID == NewUUID(seed, "next")
                 ds1 == AddFileToDatabase(ds, fileUUID, fileSourceKey, content, nextFileUUID)
                 metaUUID == NewUUID(seed, "meta")
                 metaSourceKey == GetRandomKey(user, RandomBytes(seed, "metakey"))
                 metaStruct == NewMeta(fileUUID, nextFileUUID, fileSourceKey)
                 ds2 == DatastoreSet(ds1, metaUUID, Seal(metaStruct, metaSourceKey))
                 userListKey == GetRandomKey(user, RandomBytes(seed, "listkey"))
                 inviteListUUID == NewUUID(seed, "list")
                 ds3 == DatastoreSet(ds2, inviteListUUID, Seal([Invitations |-> << >>], userListKey))
                 ownerStruct == Access(metaUUID, metaSourceKey, NilUUID, NilKey,
                                       inviteListUUID, userListKey, TRUE)
             IN  [err |-> FALSE, drew |-> TRUE,
                  ds |-> DatastoreSet(ds3, accessUUID, Seal(ownerStruct, accessSourceKey))]

(***************************************************************************)
(* AppendToFile.                                                           *)
(***************************************************************************)
\* r is what ResolveMeta returned: write content at Last and make Last the
\* fresh UUID the new block names as its Next
AppendBlock(ds, r, content, seed) ==
    IF r.err THEN [err |-> TRUE, ds |-> ds, drew |-> FALSE] ELSE
    LET nextFileUUID == NewUUID(seed, "next")
        ds1 == AddFileToDatabase(ds, AppendBlockUUID(r.meta), r.meta.FileSourcekey,
                                 content, nextFileUUID)
        metaStruct == [r.meta EXCEPT !.Last = nextFileUUID]
    IN  [err |-> FALSE, drew |-> TRUE,
         ds |-> DatastoreSet(ds1, r.metaUUID, Seal(metaStruct, r.metaSourceKey))]

AppendToFileRes(ds, user, filename, content, seed) ==
    AppendBlock(ds, ResolveMeta(ds, user, filename), content, seed)

(***************************************************************************)
(* CreateInvitation.                                                       *)
(***************************************************************************)
\* variant: every sender enters the Invitation in the list its Access names
KeepsList_everyone(accessStruct) == TRUE

\* line 682: only an owner enters the Invitation in an Invitation List
KeepsList(accessStruct) == accessStruct.IsOwner

\* r is what ResolveAccess returned for the sender: write the Invitation and
\* the token, and, for an owner, enter the Invitation in the Invitation List
WriteInvitation(ds, ks, user, filename, recipientUsername, seed, r) ==
    LET fail == [err |-> TRUE, ds |-> ds, drew |-> FALSE, token |-> NilUUID]
    IN  IF r.err THEN fail ELSE
        LET invitationSourceKey == GetRandomKey(user, RandomBytes(seed, "invkey"))
            invitation == [MetaUUID |-> r.metaUUID, MetaSourcekey |-> r.metaSourceKey]
            invitationUUID == GetInvitationUUID(user, recipientUsername, filename)
            ds1 == DatastoreSet(ds, invitationUUID, Seal(invitation, invitationSourceKey))
            invitationMetaUUID == NewUUID(seed, "token")
            invitationMeta == [InvitationUUID |-> invitationUUID,
                               InvitationSourcekey |-> invitationSourceKey]
            ds2 == DatastoreSet(ds1, invitationMetaUUID,
                       EncryptThenSign(invitationMeta,
                                       ks[recipientUsername \o " public key"], user.Sigkey))
        IN  IF ~KeepsList(r.access)
            THEN [err |-> FALSE, ds |-> ds2, drew |-> TRUE, token |-> invitationMetaUUID] ELSE
            IF r.access.InvitationList \notin DOMAIN ds2
            THEN [err |-> TRUE, ds |-> ds2, drew |-> TRUE, token |-> NilUUID] ELSE
            LET list == CheckTagAndDecrypt(ds2[r.access.InvitationList], r.access.ListKey)
            IN  IF list.err
                THEN [err |-> TRUE, ds |-> ds2, drew |-> TRUE, token |-> NilUUID] ELSE
                LET old == list.pt.Invitations
                    invitations == [u \in DOMAIN old \cup {invitationUUID} |->
                                      IF u = invitationUUID THEN invitationSourceKey ELSE old[u]]
                IN  [err |-> FALSE, drew |-> TRUE, token |-> invitationMetaUUID,
                     ds |-> DatastoreSet(ds2, r.access.InvitationList,
                                Seal([Invitations |-> invitations], r.access.ListKey))]

\* variant: a user may invite themselves
IsSelf_never(user, recipientUsername) == FALSE

\* line 579: the recipient is the caller
IsSelf(user, recipientUsername) == recipientUsername = user.Username

CreateInvitationRes(ds, ks, user, filename, recipientUsername, seed) ==
    LET fail == [err |-> TRUE, ds |-> ds, drew |-> FALSE, token |-> NilUUID]
    IN  IF (recipientUsername \o " public key") \notin DOMAIN ks THEN fail ELSE
        IF IsSelf(user, recipientUsername) THEN fail ELSE
        WriteInvitation(ds, ks, user, filename, recipientUsername, seed,
                        ResolveAccess(ds, user, filename))

(***************************************************************************)
(* AcceptInvitation.                                                       *)
(***************************************************************************)
\* variant: an Access stored under the chosen filename is not looked for
SlotTaken_never(ds, accessUUID) == FALSE

\* lines 744-747: the caller has an Access under the chosen filename
SlotTaken(ds, accessUUID) == accessUUID \in DOMAIN ds

AcceptInvitationRes(ds, ks, user, senderUsername, invitationPtr, filename) ==
    LET accessUUID == GetAccessUUID(user, filename)
        fail == [err |-> TRUE, ds |-> ds]
    IN  IF SlotTaken(ds, accessUUID) THEN fail ELSE
        IF invitationPtr \notin DOMAIN ds THEN fail ELSE
        LET value == ds[invitationPtr]
        IN  IF ~UnpackValue(value) THEN fail ELSE
            IF ~CheckSignature(ks, value.Msg, value.Tag, senderUsername) THEN fail ELSE
        LET ptr == DecryptAsynchMsg(value.Msg, user.RSAkey)
        IN  IF ptr.err THEN fail ELSE
        LET invitationUUID == ptr.pt.InvitationUUID
            invitationSourceKey == ptr.pt.InvitationSourcekey
        IN  IF invitationUUID \notin DOMAIN ds THEN fail ELSE
        LET inviteData == ds[invitationUUID]
            keys == GetTwoHASHKDFKeys(invitationSourceKey, ENCRYPT, MAC)
        IN  IF ~UnpackValue(inviteData) THEN fail ELSE
            IF ~CheckTag(inviteData.Msg, inviteData.Tag, keys.key2) THEN fail ELSE
        LET accessStruct == Access(NilUUID, NilKey, invitationUUID, invitationSourceKey,
                                   NilUUID, NilKey, FALSE)
            accessSourceKey == GetAccessKey(user.sourceKey, filename)
        IN  [err |-> FALSE, ds |-> DatastoreSet(ds, accessUUID, Seal(accessStruct, accessSourceKey))]

(***************************************************************************)
(* RevokeAccess.                                                           *)
(***************************************************************************)
\* variant: the new Metadata's Last names the new block, not its successor
RevokeMeta_lastIsStart(fileUUID, nextFileUUID, fileSourceKey) ==
    [Start |-> fileUUID, Last |-> fileUUID, FileSourcekey |-> fileSourceKey]

\* line 902: Meta{fileUUID, nextFileUUID, fileSourceKey} of the re-encrypted file
RevokeMeta(fileUUID, nextFileUUID, fileSourceKey) ==
    [Start |-> fileUUID, Last |-> nextFileUUID, FileSourcekey |-> fileSourceKey]

\* variant: the Metadata is re-sealed under the source key it had
RevokeMetaSourceKey_keep(user, metaSourceKey, salt) == metaSourceKey

\* line 903: the Metadata is re-sealed under a new random source key
RevokeMetaSourceKey(user, metaSourceKey, salt) == GetRandomKey(user, salt)

\* variant: the Invitations left in the list are not re-sealed
RewriteInvitations_none(ds, invitations, metaUUID, metaSourceKey) == ds

\* lines 966-984: every Invitation left in the list is re-sealed, under the
\* source key the list holds for it, pointing at the re-keyed Metadata
RewriteInvitations(ds, invitations, metaUUID, metaSourceKey) ==
    [u \in DOMAIN ds \cup DOMAIN invitations |->
        IF u \in DOMAIN invitations
        THEN Seal([MetaUUID |-> metaUUID, MetaSourcekey |-> metaSourceKey], invitations[u])
        ELSE ds[u]]

\* the caller owns the file: accessStruct is its Access, r what resolving
\* and authenticating the Metadata returned, loaded what the LoadFile call
\* of line 885 did.  When that call's loop never ends, RevokeAccess never
\* returns either (diverges): it has written nothing, the first
\* DatastoreSet being at line 896, and err says only that no nil came back
RekeyAndRemove(ds, user, filename, recipientUsername, seed, accessStruct, r, loaded) ==
    LET accessUUID == GetAccessUUID(user, filename)
        accessSourceKey == GetAccessKey(user.sourceKey, filename)
        fail == [err |-> TRUE, ds |-> ds, drew |-> FALSE, diverges |-> FALSE]
    IN  IF r.err THEN fail ELSE
        IF loaded.diverges THEN [fail EXCEPT !.diverges = TRUE] ELSE
        IF loaded.err THEN fail ELSE
        LET fileUUID == NewUUID(seed, "file")
            fileSourceKey == GetRandomKey(user, RandomBytes(seed, "filekey"))
            nextFileUUID == NewUUID(seed, "next")
            ds1 == AddFileToDatabase(ds, fileUUID, fileSourceKey, loaded.content, nextFileUUID)
            metaStruct == RevokeMeta(fileUUID, nextFileUUID, fileSourceKey)
            metaSourceKey == RevokeMetaSourceKey(user, r.metaSourceKey,
                                                 RandomBytes(seed, "metakey"))
            ds2 == DatastoreSet(ds1, r.metaUUID, Seal(metaStruct, metaSourceKey))
            partial == [err |-> TRUE, ds |-> ds2, drew |-> TRUE, diverges |-> FALSE]
        IN  IF accessStruct.InvitationList \notin DOMAIN ds2 THEN partial ELSE
        LET list == CheckTagAndDecrypt(ds2[accessStruct.InvitationList], accessStruct.ListKey)
        IN  IF list.err THEN partial ELSE
        LET recipientInvitationUUID == GetInvitationUUID(user, recipientUsername, filename)
        IN  IF recipientInvitationUUID \notin DOMAIN list.pt.Invitations THEN partial ELSE
        LET invitations == [u \in DOMAIN list.pt.Invitations \ {recipientInvitationUUID} |->
                               list.pt.Invitations[u]]
            ds3 == RewriteInvitations(ds2, invitations, r.metaUUID, metaSourceKey)
            ds4 == DatastoreSet(ds3, accessStruct.InvitationList,
                                Seal([Invitations |-> invitations], accessStruct.ListKey))
            ownerStruct == [accessStruct EXCEPT !.MetaSourcekey = metaSourceKey]
        IN  [err |-> FALSE, drew |-> TRUE, diverges |-> FALSE,
             ds |-> DatastoreSet(ds4, accessUUID, Seal(ownerStruct, accessSourceKey))]

\* variant: every holder of the file may revoke
MayRevoke_anyone(accessStruct) == TRUE

\* line 856: only the owner's Access lets RevokeAccess go on
MayRevoke(accessStruct) == accessStruct.IsOwner

RevokeAccessRes(ds, user, filename, recipientUsername, seed) ==
    LET accessUUID == GetAccessUUID(user, filename)
        accessSourceKey == GetAccessKey(user.sourceKey, filename)
        fail == [err |-> TRUE, ds |-> ds, drew |-> FALSE, diverges |-> FALSE]
    IN  IF accessUUID \notin DOMAIN ds THEN fail ELSE
        LET acc == CheckTagAndDecrypt(ds[accessUUID], accessSourceKey)
        IN  IF acc.err THEN fail ELSE
        IF ~MayRevoke(acc.pt) THEN fail ELSE
        RekeyAndRemove(ds, user, filename, recipientUsername, seed, acc.pt,
                       ResolveMeta(ds, user, filename), LoadFileRes(ds, user, filename))

(***************************************************************************)
(* The state machine.                                                      *)
(***************************************************************************)
Init ==
    /\ datastore = << >>
    /\ keystore = << >>
    /\ sessions = {}
    /\ rng = << >>
    /\ issued = << >>
    /\ accepted = << >>
    /\ revokedTokens = {}
    /\ registered = << >>
    /\ tampered = {}
    /\ calls = << >>

Count(ctx) == IF ctx \in DOMAIN rng THEN rng[ctx] ELSE 0

\* a seed no earlier call has drawn: the context and its draw count
Seed(ctx) == ctx \o "#" \o ToString(Count(ctx))

Draw(ctx, drew) ==
    rng' = IF drew
           THEN [c \in DOMAIN rng \cup {ctx} |-> IF c = ctx THEN Count(ctx) + 1 ELSE rng[c]]
           ELSE rng

RECURSIVE SumDraws(_)
SumDraws(S) == IF S = {} THEN 0
               ELSE LET c == CHOOSE x \in S : TRUE IN rng[c] + SumDraws(S \ {c})

Draws == SumDraws(DOMAIN rng)

\* the file a call works on: its Metadata slot, or the caller's empty slot
FileCtx(user, filename) ==
    LET r == ResolveAccess(datastore, user, filename)
    IN  IF r.err THEN user.Username \o "/" \o filename ELSE r.metaUUID[2]

InviteCtx(user, filename, recipientUsername) ==
    user.Username \o "/" \o filename \o ">" \o recipientUsername

\* the results of the calls in the current state
StoreFileCall(user, filename, content) ==
    StoreFileRes(datastore, user, filename, content, Seed(FileCtx(user, filename)))

AppendToFileCall(user, filename, content) ==
    AppendToFileRes(datastore, user, filename, content, Seed(FileCtx(user, filename)))

CreateInvitationCall(user, filename, recipientUsername) ==
    CreateInvitationRes(datastore, keystore, user, filename, recipientUsername,
                        Seed(InviteCtx(user, filename, recipientUsername)))

AcceptInvitationCall(user, senderUsername, invitationPtr, filename) ==
    AcceptInvitationRes(datastore, keystore, user, senderUsername, invitationPtr, filename)

RevokeAccessCall(user, filename, recipientUsername) ==
    RevokeAccessRes(datastore, user, filename, recipientUsername,
                    Seed(FileCtx(user, filename)))

InitUser(username, password) ==
    /\ LET res == InitUserRes(datastore, keystore, username, password, username)
       IN  /\ datastore' = res.ds
           /\ keystore' = res.ks
           /\ sessions' = IF res.err THEN sessions ELSE sessions \cup {res.user}
           /\ registered' = IF res.err THEN registered
                            ELSE [u \in DOMAIN registered \cup {username} |->
                                    IF u = username THEN password ELSE registered[u]]
    /\ UNCHANGED <<rng, issued, accepted, revokedTokens, tampered, calls>>

GetUser(username, password) ==
    /\ LET res == GetUserRes(datastore, username, password)
       IN  sessions' = IF res.err THEN sessions ELSE sessions \cup {res.user}
    /\ UNCHANGED <<datastore, keystore, rng, issued, accepted, revokedTokens, registered, tampered, calls>>

StoreFile(user, filename, content) ==
    /\ LET ctx == FileCtx(user, filename)
           res == StoreFileCall(user, filename, content)
       IN  /\ datastore' = res.ds
           /\ Draw(ctx, res.drew)
    /\ UNCHANGED <<keystore, sessions, issued, accepted, revokedTokens, registered, tampered, calls>>

LoadFile(user, filename) ==
    /\ LoadFileRes(datastore, user, filename).err \in BOOLEAN
    /\ UNCHANGED vars

AppendToFile(user, filename, content) ==
    /\ LET ctx == FileCtx(user, filename)
           res == AppendToFileCall(user, filename, content)
       IN  /\ datastore' = res.ds
           /\ Draw(ctx, res.drew)
    /\ UNCHANGED <<keystore, sessions, issued, accepted, revokedTokens, registered, tampered, calls>>

CreateInvitation(user, filename, recipientUsername) ==
    /\ LET ctx == InviteCtx(user, filename, recipientUsername)
           res == CreateInvitationCall(user, filename, recipientUsername)
       IN  /\ datastore' = res.ds
           /\ Draw(ctx, res.drew)
           /\ issued' = IF res.err THEN issued
                        ELSE [t \in DOMAIN issued \cup {res.token} |->
                                IF t = res.token
                                THEN [sender |-> user.Username, filename |-> filename,
                                      recipient |-> recipientUsername]
                                ELSE issued[t]]
    /\ UNCHANGED <<keystore, sessions, accepted, revokedTokens, registered, tampered, calls>>

AcceptInvitation(user, senderUsername, invitationPtr, filename) ==
    /\ LET res == AcceptInvitationCall(user, senderUsername, invitationPtr, filename)
           slot == <<user.Username, filename>>
       IN  /\ datastore' = res.ds
           /\ accepted' = IF res.err THEN accepted
                          ELSE [a \in DOMAIN accepted \cup {slot} |->
                                  IF a = slot THEN invitationPtr ELSE accepted[a]]
    /\ UNCHANGED <<keystore, sessions, rng, issued, revokedTokens, registered, tampered, calls>>

\* a call that never returns (res.diverges) has written and drawn nothing
RevokeAccess(user, filename, recipientUsername) ==
    /\ LET ctx == FileCtx(user, filename)
           res == RevokeAccessCall(user, filename, recipientUsername)
       IN  /\ datastore' = res.ds
           /\ Draw(ctx, res.drew)
           /\ revokedTokens' =
                IF res.err THEN revokedTokens
                ELSE revokedTokens \cup
                     {t \in DOMAIN issued : /\ issued[t].sender = user.Username
                                            /\ issued[t].filename = filename
                                            /\ issued[t].recipient = recipientUsername}
    /\ UNCHANGED <<keystore, sessions, issued, accepted, registered, tampered, calls>>

\* the values the adversary can put in the place of a stored one: bytes that
\* are no {Msg, Tag} map, or the value stored under another UUID
TamperValues(ds) == {RawBytes} \cup {ds[u] : u \in DOMAIN ds}

\* the store's adversary replaces the value stored under uuid
Tamper(uuid, value) ==
    /\ uuid \in DOMAIN datastore
    /\ value # datastore[uuid]
    /\ datastore' = [datastore EXCEPT ![uuid] = value]
    /\ tampered' = tampered \cup {uuid}
    /\ UNCHANGED <<keystore, sessions, rng, issued, accepted, revokedTokens, registered, calls>>

\* one more blob may be replaced
MayTamper(uuid) == uuid \notin tampered /\ Cardinality(tampered) < MaxTampers

(***************************************************************************)
(* AppendToFile one blob-store access at a time.  A call holds what the    *)
(* code holds in local variables (r, as ResolveMeta builds it) and the     *)
(* place it has reached: "locate" after DatastoreGet of the Access,        *)
(* "meta" after GetMetaUUIDAndSourceKey, "block" after DatastoreGet of the *)
(* Metadata, "set" after AddFileToDatabase, "done" after DatastoreSet of   *)
(* the Metadata, "failed" when it returned an error.  prior is what        *)
(* LoadFile returned when the call began.                                  *)
(***************************************************************************)
\* the content client c appends
ContentOf(c) == IF c = "p" THEN "x" ELSE "y"

SetCall(c, call) == calls' = [d \in DOMAIN calls \cup {c} |-> IF d = c THEN call ELSE calls[d]]

At(c, pc) == c \in DOMAIN calls /\ calls[c].pc = pc

\* r is what the call has resolved so far
Advance(c, r, pc) ==
    SetCall(c, [calls[c] EXCEPT !.r = r, !.pc = IF r.err THEN "failed" ELSE pc])

\* lines 485-516: DatastoreGet of the Access, CheckTag, DecryptAccessMsg
AppendGetAccess(c, user, filename) ==
    /\ c \notin DOMAIN calls
    /\ LET opened == IF GetAccessUUID(user, filename) \notin DOMAIN datastore
                     THEN ResolveFail("noaccess")
                     ELSE IF CheckTagAndDecrypt(datastore[GetAccessUUID(user, filename)],
                                                GetAccessKey(user.sourceKey, filename)).err
                          THEN ResolveFail("access")
                          ELSE [ResolveFail("access") EXCEPT
                                  !.err = FALSE,
                                  !.access = CheckTagAndDecrypt(
                                                 datastore[GetAccessUUID(user, filename)],
                                                 GetAccessKey(user.sourceKey, filename)).pt]
       IN  SetCall(c, [op |-> "append", wrote |-> << >>,
                       user |-> user, filename |-> filename, content |-> ContentOf(c),
                       prior |-> LoadFileRes(datastore, user, filename),
                       seed |-> Seed(FileCtx(user, filename)) \o "@" \o c,
                       r |-> opened, pc |-> IF opened.err THEN "failed" ELSE "locate"])
    /\ UNCHANGED <<datastore, keystore, sessions, rng, issued, accepted, revokedTokens,
                   registered, tampered>>

\* line 519: GetMetaUUIDAndSourceKey (DatastoreGet of the Invitation for a sharee)
AppendLocateMeta(c) ==
    /\ At(c, "locate")
    /\ Advance(c, Located(calls[c].r.access,
                          GetMetaUUIDAndSourceKey(datastore, calls[c].r.access)), "meta")
    /\ UNCHANGED <<datastore, keystore, sessions, rng, issued, accepted, revokedTokens,
                   registered, tampered>>

\* lines 529-544: DatastoreGet of the Metadata, CheckTag, DecryptMetaMsg
AppendGetMeta(c) ==
    /\ At(c, "meta")
    /\ Advance(c, AuthenticateMeta(datastore, calls[c].r), "block")
    /\ UNCHANGED <<datastore, keystore, sessions, rng, issued, accepted, revokedTokens,
                   registered, tampered>>

\* lines 546-553: AddFileToDatabase stores the new block at Last
AppendSetBlock(c) ==
    /\ At(c, "block")
    /\ datastore' = AddFileToDatabase(datastore, AppendBlockUUID(calls[c].r.meta),
                                      calls[c].r.meta.FileSourcekey, calls[c].content,
                                      NewUUID(calls[c].seed, "next"))
    /\ SetCall(c, [calls[c] EXCEPT !.pc = "set", !.wrote = Append(@, "file")])
    /\ UNCHANGED <<keystore, sessions, rng, issued, accepted, revokedTokens,
                   registered, tampered>>

\* lines 555-567: the Metadata, with Last the new block's Next, is stored
AppendSetMeta(c) ==
    /\ At(c, "set")
    /\ datastore' = DatastoreSet(datastore, calls[c].r.metaUUID,
                         Seal([calls[c].r.meta EXCEPT !.Last = NewUUID(calls[c].seed, "next")],
                              calls[c].r.metaSourceKey))
    /\ SetCall(c, [calls[c] EXCEPT !.pc = "done", !.wrote = Append(@, "meta")])
    /\ UNCHANGED <<keystore, sessions, rng, issued, accepted, revokedTokens,
                   registered, tampered>>

(***************************************************************************)
(* StoreFile, LoadFile and RevokeAccess one blob-store access at a time.   *)
(* A call holds the operation (op), its arguments, the local variables of  *)
(* the code (r: what was resolved; lr, cur, loaded: the same for the       *)
(* LoadFile a RevokeAccess calls; invitations, todo: the entries left in   *)
(* the Invitation List and those not yet re-sealed; key: the new           *)
(* metaSourceKey), the kinds of blob it has stored so far (wrote) and the  *)
(* place it has reached (pc).                                              *)
(***************************************************************************)
\* the struct a sealed value holds, by its fields
KindOf(value) ==
    IF "Contents" \in DOMAIN value.Msg.pt THEN "file"
    ELSE IF "Start" \in DOMAIN value.Msg.pt THEN "meta"
    ELSE IF "Invitations" \in DOMAIN value.Msg.pt THEN "list"
    ELSE IF "IsOwner" \in DOMAIN value.Msg.pt THEN "access"
    ELSE "invitation"

\* DatastoreGet of the caller's Access, UnpackValue, CheckTag, DecryptAccessMsg
OpenAccess(ds, user, filename) ==
    IF GetAccessUUID(user, filename) \notin DOMAIN ds THEN ResolveFail("noaccess") ELSE
    IF CheckTagAndDecrypt(ds[GetAccessUUID(user, filename)],
                          GetAccessKey(user.sourceKey, filename)).err
    THEN ResolveFail("access")
    ELSE [ResolveFail("access") EXCEPT
            !.err = FALSE,
            !.access = CheckTagAndDecrypt(ds[GetAccessUUID(user, filename)],
                                          GetAccessKey(user.sourceKey, filename)).pt]

\* a call that has made its first store access, with result r
NewCall(op, c, user, filename, recipientUsername, content, r, pc) ==
    [op |-> op, user |-> user, filename |-> filename, recipient |-> recipientUsername,
     content |-> content, seed |-> Seed(FileCtx(user, filename)) \o "@" \o c,
     r |-> r, lr |-> ResolveFail("access"), cur |-> NilUUID, loaded |-> "",
     invitations |-> << >>, todo |-> {}, key |-> NilKey, wrote |-> << >>,
     pc |-> IF r.err THEN "failed" ELSE pc]

\* the call of client c stores value under uuid and goes on to pc
Put(c, uuid, value, pc) ==
    /\ datastore' = DatastoreSet(datastore, uuid, value)
    /\ SetCall(c, [calls[c] EXCEPT !.wrote = Append(@, KindOf(value)), !.pc = pc])

\* lines 198-229: DatastoreGet of the Access; when there is one, UnpackValue,
\* CheckTag and DecryptAccessMsg, otherwise the file is created
StoreGetAccess(c, user, filename, content) ==
    /\ c \notin DOMAIN calls
    /\ SetCall(c, IF HasAccess(datastore, user, filename)
                  THEN NewCall("store", c, user, filename, "", content,
                               OpenAccess(datastore, user, filename), "slocate")
                  ELSE NewCall("create", c, user, filename, "", content,
                               [ResolveFail("noaccess") EXCEPT !.err = FALSE], "cblock"))
    /\ UNCHANGED <<datastore, keystore, sessions, rng, issued, accepted, revokedTokens,
                   registered, tampered>>

\* line 231: GetMetaUUIDAndSourceKey (DatastoreGet of the Invitation for a sharee)
StoreLocateMeta(c) ==
    /\ At(c, "slocate")
    /\ Advance(c, Located(calls[c].r.access,
                          GetMetaUUIDAndSourceKey(datastore, calls[c].r.access)), "smeta")
    /\ UNCHANGED <<datastore, keystore, sessions, rng, issued, accepted, revokedTokens,
                   registered, tampered>>

\* lines 241-256: DatastoreGet of the Metadata, CheckTag, DecryptMetaMsg
StoreGetMeta(c) ==
    /\ At(c, "smeta")
    /\ Advance(c, AuthenticateMeta(datastore, calls[c].r), "sblock")
    /\ UNCHANGED <<datastore, keystore, sessions, rng, issued, accepted, revokedTokens,
                   registered, tampered>>

\* lines 258-268: AddFileToDatabase stores the content at Start
StoreSetBlock(c) ==
    /\ At(c, "sblock")
    /\ Put(c, OverwriteBlockUUID(calls[c].r.meta),
           AddFileToDatabase(datastore, OverwriteBlockUUID(calls[c].r.meta),
                             calls[c].r.meta.FileSourcekey, calls[c].content,
                             NewUUID(calls[c].seed, "next"))[OverwriteBlockUUID(calls[c].r.meta)],
           "sset")
    /\ UNCHANGED <<keystore, sessions, rng, issued, accepted, revokedTokens,
                   registered, tampered>>

\* lines 269-280: the Metadata, with Last the new block's Next, is stored
StoreSetMeta(c) ==
    /\ At(c, "sset")
    /\ Put(c, calls[c].r.metaUUID,
           Seal([calls[c].r.meta EXCEPT !.Last = NewUUID(calls[c].seed, "next")],
                calls[c].r.metaSourceKey), "done")
    /\ UNCHANGED <<keystore, sessions, rng, issued, accepted, revokedTokens,
                   registered, tampered>>

\* lines 283-295: AddFileToDatabase stores the first block of a new file
StoreNewBlock(c) ==
    /\ At(c, "cblock")
    /\ Put(c, NewUUID(calls[c].seed, "file"),
           AddFileToDatabase(datastore, NewUUID(calls[c].seed, "file"),
                             GetRandomKey(calls[c].user, RandomBytes(calls[c].seed, "filekey")),
                             calls[c].content,
                             NewUUID(calls[c].seed, "next"))[NewUUID(calls[c].seed, "file")],
           "cmeta")
    /\ UNCHANGED <<keystore, sessions, rng, issued, accepted, revokedTokens,
                   registered, tampered>>

\* lines 297-317: the Metadata of the new file is stored
StoreNewMeta(c) ==
    /\ At(c, "cmeta")
    /\ Put(c, NewUUID(calls[c].seed, "meta"),
           Seal(NewMeta(NewUUID(calls[c].seed, "file"), NewUUID(calls[c].seed, "next"),
                        GetRandomKey(calls[c].user, RandomBytes(calls[c].seed, "filekey"))),
                GetRandomKey(calls[c].user, RandomBytes(calls[c].seed, "metakey"))), "clist")
    /\ UNCHANGED <<keystore, sessions, rng, issued, accepted, revokedTokens,
                   registered, tampered>>

\* lines 319-345: the empty Invitation List of the new file is stored
StoreNewList(c) ==
    /\ At(c, "clist")
    /\ Put(c, NewUUID(calls[c].seed, "list"),
           Seal([Invitations |-> << >>],
                GetRandomKey(calls[c].user, RandomBytes(calls[c].seed, "listkey"))), "caccess")
    /\ UNCHANGED <<keystore, sessions, rng, issued, accepted, revokedTokens,
                   registered, tampered>>

\* lines 347-371: the owner's Access of the new file is stored
StoreNewAccess(c) ==
    /\ At(c, "caccess")
    /\ Put(c, GetAccessUUID(calls[c].user, calls[c].filename),
           Seal(Access(NewUUID(calls[c].seed, "meta"),
                       GetRandomKey(calls[c].user, RandomBytes(calls[c].seed, "metakey")),
                       NilUUID, NilKey, NewUUID(calls[c].seed, "list"),
                       GetRandomKey(calls[c].user, RandomBytes(calls[c].seed, "listkey")),
                       TRUE),
                GetAccessKey(calls[c].user.sourceKey, calls[c].filename)), "done")
    /\ UNCHANGED <<keystore, sessions, rng, issued, accepted, revokedTokens,
                   registered, tampered>>

\* where a LoadFile returns to: its caller, or the RevokeAccess that called it
LoadExit(call) == IF call.op = "revoke" THEN "rblock" ELSE "done"

\* lines 376-410: LoadFile begins: DatastoreGet of the Access, CheckTag,
\* DecryptAccessMsg
LoadGetAccess(c, user, filename) ==
    /\ c \notin DOMAIN calls
    /\ SetCall(c, [NewCall("load", c, user, filename, "", "",
                           OpenAccess(datastore, user, filename), "llocate")
                     EXCEPT !.lr = OpenAccess(datastore, user, filename)])
    /\ UNCHANGED <<datastore, keystore, sessions, rng, issued, accepted, revokedTokens,
                   registered, tampered>>

\* line 412: GetMetaUUIDAndSourceKey (DatastoreGet of the Invitation for a sharee)
LoadLocateMeta(c) ==
    /\ At(c, "llocate")
    /\ LET lr == Located(calls[c].lr.access,
                         GetMetaUUIDAndSourceKey(datastore, calls[c].lr.access))
       IN  SetCall(c, [calls[c] EXCEPT !.lr = lr,
                                       !.pc = IF lr.err THEN "failed" ELSE "lmeta"])
    /\ UNCHANGED <<datastore, keystore, sessions, rng, issued, accepted, revokedTokens,
                   registered, tampered>>

\* lines 422-450: DatastoreGet of the Metadata, CheckTag, DecryptMetaMsg;
\* currentUUID := startoffile and the loop test
LoadGetMeta(c) ==
    /\ At(c, "lmeta")
    /\ LET lr == AuthenticateMeta(datastore, calls[c].lr)
       IN  SetCall(c, [calls[c] EXCEPT
                         !.lr = lr,
                         !.cur = lr.meta.Start,
                         !.pc = IF lr.err THEN "failed"
                                ELSE IF lr.meta.Start = lr.meta.Last THEN LoadExit(calls[c])
                                ELSE "lwalk"])
    /\ UNCHANGED <<datastore, keystore, sessions, rng, issued, accepted, revokedTokens,
                   registered, tampered>>

\* lines 451-477: one round of the loop: DatastoreGet of the block at
\* currentUUID, CheckTag, DecryptFileMsg, append its Contents, follow Next
LoadGetBlock(c) ==
    /\ At(c, "lwalk")
    /\ IF calls[c].cur \notin DOMAIN datastore
       THEN SetCall(c, [calls[c] EXCEPT !.pc = "failed"])
       ELSE LET block == CheckTagAndDecrypt(datastore[calls[c].cur],
                                            calls[c].lr.meta.FileSourcekey)
            IN  IF block.err
                THEN SetCall(c, [calls[c] EXCEPT !.pc = "failed"])
                ELSE SetCall(c, [calls[c] EXCEPT
                                   !.loaded = @ \o block.pt.Contents,
                                   !.cur = block.pt.Next,
                                   !.pc = IF block.pt.Next = calls[c].lr.meta.Last
                                          THEN LoadExit(calls[c]) ELSE "lwalk"])
    /\ UNCHANGED <<datastore, keystore, sessions, rng, issued, accepted, revokedTokens,
                   registered, tampered>>

\* lines 821-868: RevokeAccess begins: DatastoreGet of the Access, CheckTag,
\* DecryptAccessMsg, the IsOwner test, GetMetaUUIDAndSourceKey
RevokeGetAccess(c, user, filename, recipientUsername) ==
    /\ c \notin DOMAIN calls
    /\ LET opened == OpenAccess(datastore, user, filename)
       IN  SetCall(c, NewCall("revoke", c, user, filename, recipientUsername, "",
                              IF opened.err THEN opened
                              ELSE IF ~MayRevoke(opened.access) THEN ResolveFail("owner")
                              ELSE Located(opened.access,
                                           GetMetaUUIDAndSourceKey(datastore, opened.access)),
                              "rmeta"))
    /\ UNCHANGED <<datastore, keystore, sessions, rng, issued, accepted, revokedTokens,
                   registered, tampered>>

\* lines 870-882: DatastoreGet of the Metadata, UnpackValue, CheckTag
RevokeGetMeta(c) ==
    /\ At(c, "rmeta")
    /\ Advance(c, AuthenticateMeta(datastore, calls[c].r), "rload")
    /\ UNCHANGED <<datastore, keystore, sessions, rng, issued, accepted, revokedTokens,
                   registered, tampered>>

\* line 885: LoadFile is called; lines 376-410 for this call
RevokeLoadAccess(c) ==
    /\ At(c, "rload")
    /\ LET lr == OpenAccess(datastore, calls[c].user, calls[c].filename)
       IN  SetCall(c, [calls[c] EXCEPT !.lr = lr,
                                       !.pc = IF lr.err THEN "failed" ELSE "llocate"])
    /\ UNCHANGED <<datastore, keystore, sessions, rng, issued, accepted, revokedTokens,
                   registered, tampered>>

\* lines 890-899: AddFileToDatabase stores what LoadFile returned as one
\* block at a new UUID under a new FileSourcekey
RevokeSetBlock(c) ==
    /\ At(c, "rblock")
    /\ Put(c, NewUUID(calls[c].seed, "file"),
           AddFileToDatabase(datastore, NewUUID(calls[c].seed, "file"),
                             GetRandomKey(calls[c].user, RandomBytes(calls[c].seed, "filekey")),
                             calls[c].loaded,
                             NewUUID(calls[c].seed, "next"))[NewUUID(calls[c].seed, "file")],
           "rsetmeta")
    /\ UNCHANGED <<keystore, sessions, rng, issued, accepted, revokedTokens,
                   registered, tampered>>

\* the metaSourceKey a RevokeAccess call draws
RevokeKey(call) ==
    RevokeMetaSourceKey(call.user, call.r.metaSourceKey, RandomBytes(call.seed, "metakey"))

\* lines 901-921: the new Metadata is stored at metaUUID under a new
\* metaSourceKey
RevokeSetMeta(c) ==
    /\ At(c, "rsetmeta")
    /\ Put(c, calls[c].r.metaUUID,
           Seal(RevokeMeta(NewUUID(calls[c].seed, "file"), NewUUID(calls[c].seed, "next"),
                           GetRandomKey(calls[c].user, RandomBytes(calls[c].seed, "filekey"))),
                RevokeKey(calls[c])), "rlist")
    /\ UNCHANGED <<keystore, sessions, rng, issued, accepted, revokedTokens,
                   registered, tampered>>

\* lines 923-963: DatastoreGet of the Invitation List, CheckTag,
\* DecryptInvitationListMsg, the recipient's entry is looked up and deleted
RevokeGetList(c) ==
    /\ At(c, "rlist")
    /\ LET listUUID == calls[c].r.access.InvitationList
           list == IF listUUID \in DOMAIN datastore
                   THEN CheckTagAndDecrypt(datastore[listUUID], calls[c].r.access.ListKey)
                   ELSE [err |-> TRUE, pt |-> << >>]
           gone == GetInvitationUUID(calls[c].user, calls[c].recipient, calls[c].filename)
       IN  IF list.err \/ gone \notin DOMAIN list.pt.Invitations
           THEN SetCall(c, [calls[c] EXCEPT !.pc = "failed"])
           ELSE SetCall(c, [calls[c] EXCEPT
                              !.invitations = [u \in DOMAIN list.pt.Invitations \ {gone} |->
                                                 list.pt.Invitations[u]],
                              !.todo = DOMAIN list.pt.Invitations \ {gone},
                              !.pc = IF DOMAIN list.pt.Invitations = {gone}
                                     THEN "rsetlist" ELSE "rinv"])
    /\ UNCHANGED <<datastore, keystore, sessions, rng, issued, accepted, revokedTokens,
                   registered, tampered>>

\* lines 966-984: one round of the loop over the entries left: the Invitation
\* at invitationUUID is re-sealed pointing at the re-keyed Metadata
RevokeSetInvitation(c, invitationUUID) ==
    /\ At(c, "rinv")
    /\ invitationUUID \in calls[c].todo
    /\ datastore' = DatastoreSet(datastore, invitationUUID,
                        Seal([MetaUUID |-> calls[c].r.metaUUID,
                              MetaSourcekey |-> RevokeKey(calls[c])],
                             calls[c].invitations[invitationUUID]))
    /\ SetCall(c, [calls[c] EXCEPT
                     !.wrote = Append(@, KindOf(datastore'[invitationUUID])),
                     !.todo = @ \ {invitationUUID},
                     !.pc = IF calls[c].todo = {invitationUUID} THEN "rsetlist" ELSE "rinv"])
    /\ UNCHANGED <<keystore, sessions, rng, issued, accepted, revokedTokens,
                   registered, tampered>>

\* variant: the owner's Access is stored where the Invitation List should be
RevokeSetList_accessFirst(c) ==
    /\ At(c, "rsetlist")
    /\ Put(c, GetAccessUUID(calls[c].user, calls[c].filename),
           Seal([calls[c].r.access EXCEPT !.MetaSourcekey = RevokeKey(calls[c])],
                GetAccessKey(calls[c].user.sourceKey, calls[c].filename)), "rsetaccess")
    /\ UNCHANGED <<keystore, sessions, rng, issued, accepted, revokedTokens,
                   registered, tampered>>

\* lines 986-997: the Invitation List without the recipient's entry is stored
RevokeSetList(c) ==
    /\ At(c, "rsetlist")
    /\ Put(c, calls[c].r.access.InvitationList,
           Seal([Invitations |-> calls[c].invitations], calls[c].r.access.ListKey),
           "rsetaccess")
    /\ UNCHANGED <<keystore, sessions, rng, issued, accepted, revokedTokens,
                   registered, tampered>>

\* lines 999-1011: the owner's Access with the new metaSourceKey is stored
\* and the call returns nil
RevokeSetAccess(c) ==
    /\ At(c, "rsetaccess")
    /\ Put(c, GetAccessUUID(calls[c].user, calls[c].filename),
           Seal([calls[c].r.access EXCEPT !.MetaSourcekey = RevokeKey(calls[c])],
                GetAccessKey(calls[c].user.sourceKey, calls[c].filename)), "done")
    /\ revokedTokens' = revokedTokens \cup
          {t \in DOMAIN issued : /\ issued[t].sender = calls[c].user.Username
                                 /\ issued[t].filename = calls[c].filename
                                 /\ issued[t].recipient = calls[c].recipient}
    /\ UNCHANGED <<keystore, sessions, rng, issued, accepted, registered, tampered>>

\* the calls of one client library, one operation at a time: users, logins,
\* filenames and contents are the arguments tried, creators the users who may
\* store under a filename they do not hold, maxOps the number of calls that
\* draw random values
Step(users, creators, filenames, contents, maxOps) ==
    \/ \E u \in users, p \in Passwords : InitUser(u, p)
    \/ \E u \in users, p \in Logins : GetUser(u, p)
    \/ \E s \in sessions, f \in filenames, c \in contents :
          /\ Draws < maxOps
          /\ s.Username \in creators \/ GetAccessUUID(s, f) \in DOMAIN datastore
          /\ StoreFile(s, f, c)
    \/ \E s \in sessions, f \in filenames : LoadFile(s, f)
    \/ \E s \in sessions, f \in filenames, c \in contents :
          Draws < maxOps /\ AppendToFile(s, f, c)
    \/ \E s \in sessions, f \in filenames, r \in users :
          Draws < maxOps /\ CreateInvitation(s, f, r)
    \/ \E s \in sessions, t \in DOMAIN issued, f \in filenames :
          AcceptInvitation(s, issued[t].sender, t, f)
    \/ \E s \in sessions, f \in filenames, r \in users :
          Draws < maxOps /\ RevokeAccess(s, f, r)

Next == Step(Usernames, Creators, Filenames, Contents, MaxOps)

Spec == Init /\ [][Next]_vars

\* the same operations with a fourth user
NextWide == Step(UsernamesWide, Creators, Filenames, Contents, MaxOpsWide)

SpecWide == Init /\ [][NextWide]_vars

\* the same operations on two users' files, with the empty content among
\* the contents and every user creating files
NextFile == Step(UsernamesFile, UsernamesFile, Filenames, ContentsFile, MaxOpsFile)

SpecFile == Init /\ [][NextFile]_vars

\* the same operations of two users on two filenames
NextNames == Step(UsernamesFile, Creators, FilenamesNames, ContentsNames, MaxOpsNames)

SpecNames == Init /\ [][NextNames]_vars

\* the operations one at a time, then two AppendToFile calls whose store
\* accesses interleave
NextRace ==
    \/ calls = << >> /\ Step(UsernamesFile, Creators, Filenames, Contents, MaxOpsRace)
    \/ \E c \in Clients, s \in sessions, f \in Filenames : AppendGetAccess(c, s, f)
    \/ \E c \in Clients : AppendLocateMeta(c)
    \/ \E c \in Clients : AppendGetMeta(c)
    \/ \E c \in Clients : AppendSetBlock(c)
    \/ \E c \in Clients : AppendSetMeta(c)

SpecRace == Init /\ [][NextRace]_vars

\* the same operations with usernames and filenames of which different
\* concatenations spell the same string
NextConcat == Step(UsernamesConcat, Creators, FilenamesConcat, ContentsNames, MaxOpsConcat)

SpecConcat == Init /\ [][NextConcat]_vars

\* the operations one at a time, then a call of the writer (AppendToFile or
\* StoreFile) and a RevokeAccess call whose store accesses interleave
NextSteps ==
    \/ calls = << >> /\ Step(Usernames, Creators, Filenames, ContentsNames, MaxOpsSteps)
    \/ \E s \in sessions, f \in Filenames : AppendGetAccess(Writer, s, f)
    \/ AppendLocateMeta(Writer)
    \/ AppendGetMeta(Writer)
    \/ AppendSetBlock(Writer)
    \/ AppendSetMeta(Writer)
    \/ \E s \in sessions, f \in Filenames :
          /\ s.Username \in Creators \/ GetAccessUUID(s, f) \in DOMAIN datastore
          /\ StoreGetAccess(Writer, s, f, ContentOf(Writer))
    \/ StoreLocateMeta(Writer)
    \/ StoreGetMeta(Writer)
    \/ StoreSetBlock(Writer)
    \/ StoreSetMeta(Writer)
    \/ StoreNewBlock(Writer)
    \/ StoreNewMeta(Writer)
    \/ StoreNewList(Writer)
    \/ StoreNewAccess(Writer)
    \/ \E s \in sessions, f \in Filenames, r \in Usernames : RevokeGetAccess(Revoker, s, f, r)
    \/ RevokeGetMeta(Revoker)
    \/ RevokeLoadAccess(Revoker)
    \/ LoadLocateMeta(Revoker)
    \/ LoadGetMeta(Revoker)
    \/ LoadGetBlock(Revoker)
    \/ RevokeSetBlock(Revoker)
    \/ RevokeSetMeta(Revoker)
    \/ RevokeGetList(Revoker)
    \/ \E u \in DOMAIN datastore : RevokeSetInvitation(Revoker, u)
    \/ RevokeSetList(Revoker)
    \/ RevokeSetAccess(Revoker)

SpecSteps == Init /\ [][NextSteps]_vars

\* the operations one at a time, then AppendToFile calls of two clients, a
\* StoreFile call of the writer and a LoadFile call of the reader whose store
\* accesses interleave
NextLoad ==
    \/ calls = << >> /\ Step(UsernamesFile, Creators, Filenames, Contents, MaxOpsLoad)
    \/ \E c \in Clients, s \in sessions, f \in Filenames : AppendGetAccess(c, s, f)
    \/ \E c \in Clients : AppendLocateMeta(c)
    \/ \E c \in Clients : AppendGetMeta(c)
    \/ \E c \in Clients : AppendSetBlock(c)
    \/ \E c \in Clients : AppendSetMeta(c)
    \/ \E s \in sessions, f \in Filenames :
          /\ s.Username \in Creators \/ GetAccessUUID(s, f) \in DOMAIN datastore
          /\ StoreGetAccess(Writer, s, f, ContentOf(Writer))
    \/ StoreLocateMeta(Writer)
    \/ StoreGetMeta(Writer)
    \/ StoreSetBlock(Writer)
    \/ StoreSetMeta(Writer)
    \/ StoreNewBlock(Writer)
    \/ StoreNewMeta(Writer)
    \/ StoreNewList(Writer)
    \/ StoreNewAccess(Writer)
    \/ \E s \in sessions, f \in Filenames : LoadGetAccess(Reader, s, f)
    \/ LoadLocateMeta(Reader)
    \/ LoadGetMeta(Reader)
    \/ LoadGetBlock(Reader)

\* a LoadFile call that has begun goes on running
SpecLoad ==
    /\ Init
    /\ [][NextLoad]_vars
    /\ WF_vars(LoadLocateMeta(Reader) \/ LoadGetMeta(Reader) \/ LoadGetBlock(Reader))

\* registration and login with either password, against a store whose
\* adversary replaces User Records
NextUser ==
    \/ \E u \in UsernamesUser, p \in Logins : InitUser(u, p)
    \/ \E u \in UsernamesUser, p \in Logins : GetUser(u, p)
    \/ \E u \in DOMAIN datastore, v \in TamperValues(datastore) :
          MayTamper(u) /\ Tamper(u, v)

SpecUser == Init /\ [][NextUser]_vars

\* the file operations against a store whose adversary replaces blobs
NextTamper ==
    \/ Step(UsernamesTamper, Creators, Filenames, Contents, MaxOpsTamper)
    \/ \E u \in DOMAIN datastore, v \in TamperValues(datastore) :
          MayTamper(u) /\ Tamper(u, v)

SpecTamper == Init /\ [][NextTamper]_vars

(***************************************************************************)
(* Vocabulary of the properties.                                           *)
(***************************************************************************)
\* the slot <<username, filename>> holds a share installed by AcceptInvitation
IsShare(acc, u, f) == <<u, f>> \in DOMAIN acc

\* a share is cut off when its token was revoked, or when the slot that
\* created its token is itself cut off
RECURSIVE CutOff(_, _, _, _, _)
CutOff(acc, iss, rev, u, f) ==
    /\ IsShare(acc, u, f)
    /\ LET t == acc[<<u, f>>]
       IN  t \in rev \/ CutOff(acc, iss, rev, iss[t].sender, iss[t].filename)

\* the owner slot a share descends from
RECURSIVE Root(_, _, _, _)
Root(acc, iss, u, f) ==
    IF IsShare(acc, u, f)
    THEN LET t == acc[<<u, f>>] IN Root(acc, iss, iss[t].sender, iss[t].filename)
    ELSE <<u, f>>

Registered(username) == (username \o " public key") \in DOMAIN keystore

LoadOk(ds, user, filename) == ~LoadFileRes(ds, user, filename).err

\* AppendToFile would succeed in store ds (the seed does not decide success)
AppendOk(ds, user, filename) ==
    \A c \in Contents : ~AppendToFileRes(ds, user, filename, c, "probe").err

\* this step is a RevokeAccess call that returns no error
RevokeSucceeds(user, filename, recipientUsername) ==
    /\ revokedTokens' # revokedTokens
    /\ RevokeAccess(user, filename, recipientUsername)
    /\ ~RevokeAccessCall(user, filename, recipientUsername).err

\* user owns filename and the Invitation List holds no entry for recipient
OwnerWithoutEntry(ds, user, filename, recipientUsername) ==
    LET r == ResolveAccess(ds, user, filename)
    IN  /\ ~r.err
        /\ r.access.IsOwner
        /\ r.access.InvitationList \in DOMAIN ds
        /\ LET list == CheckTagAndDecrypt(ds[r.access.InvitationList], r.access.ListKey)
           IN  /\ ~list.err
               /\ GetInvitationUUID(user, recipientUsername, filename)
                      \notin DOMAIN list.pt.Invitations

\* this step is a StoreFile call that returns no error
StoreSucceeds(user, filename, content) ==
    /\ rng' # rng
    /\ StoreFile(user, filename, content)
    /\ ~StoreFileCall(user, filename, content).err

\* this step is an AppendToFile call that returns no error
AppendSucceeds(user, filename, content) ==
    /\ rng' # rng
    /\ AppendToFile(user, filename, content)
    /\ ~AppendToFileCall(user, filename, content).err

InNamespace(ds, user, filename) == GetAccessUUID(user, filename) \in DOMAIN ds

Loaded(content) == [err |-> FALSE, content |-> content, diverges |-> FALSE]

\* number of File blocks LoadFile reads
RECURSIVE ChainLength(_, _, _, _)
ChainLength(ds, currentUUID, endoffile, fileSourceKey) ==
    IF currentUUID = endoffile \/ currentUUID \notin DOMAIN ds THEN 0
    ELSE 1 + ChainLength(ds, CheckTagAndDecrypt(ds[currentUUID], fileSourceKey).pt.Next,
                         endoffile, fileSourceKey)

Blocks(user, filename) ==
    LET r == ResolveMeta(datastore, user, filename)
    IN  IF r.err THEN 0
        ELSE ChainLength(datastore, r.meta.Start, r.meta.Last, r.meta.FileSourcekey)

\* sb holds g by a token sa created for f
SharedTo(sa, f, sb, g) ==
    /\ IsShare(accepted, sb.Username, g)
    /\ issued[accepted[<<sb.Username, g>>]].sender = sa.Username
    /\ issued[accepted[<<sb.Username, g>>]].filename = f

WriteSucceeds(user, filename) ==
    \E c \in Contents : StoreSucceeds(user, filename, c) \/ AppendSucceeds(user, filename, c)

\* this step is an AcceptInvitation call that returns no error
AcceptSucceeds(user, senderUsername, invitationPtr, filename) ==
    /\ accepted' # accepted
    /\ AcceptInvitation(user, senderUsername, invitationPtr, filename)
    /\ ~AcceptInvitationCall(user, senderUsername, invitationPtr, filename).err

\* the File blocks LoadFile fetches on its way from currentUUID to endoffile
RECURSIVE ChainUUIDs(_, _, _, _)
ChainUUIDs(ds, currentUUID, endoffile, fileSourceKey) ==
    IF currentUUID = endoffile \/ currentUUID \notin DOMAIN ds THEN {}
    ELSE {currentUUID} \cup
         ChainUUIDs(ds, CheckTagAndDecrypt(ds[currentUUID], fileSourceKey).pt.Next,
                    endoffile, fileSourceKey)

\* r is what ResolveMeta returned for a LoadFile that succeeds: the blobs the
\* call fetches and authenticates (Access, Invitation of a sharee, Metadata,
\* File blocks)
ReadsOf(ds, accessUUID, r) ==
    {accessUUID, r.metaUUID}
    \cup (IF r.access.IsOwner THEN {} ELSE {r.access.InvitationUUID})
    \cup ChainUUIDs(ds, r.meta.Start, r.meta.Last, r.meta.FileSourcekey)

LoadReads(ds, user, filename) ==
    ReadsOf(ds, GetAccessUUID(user, filename), ResolveMeta(ds, user, filename))

\* this step is the adversary replacing the value stored under uuid
Tampers(uuid) == tampered' = tampered \cup {uuid} /\ uuid \notin tampered

\* user created a token for filename and recipient, and recipient holds no
\* share installed from a token user created for filename
InvitedNotAccepted(user, filename, recipientUsername) ==
    /\ \E t \in DOMAIN issued :
          issued[t] = [sender |-> user.Username, filename |-> filename,
                       recipient |-> recipientUsername]
    /\ \A slot \in DOMAIN accepted :
          slot[1] = recipientUsername
          => ~(/\ issued[accepted[slot]].sender = user.Username
               /\ issued[accepted[slot]].filename = filename)

\* the UUIDs whose value in ds2 is new or differs from the one in ds
Written(ds, ds2) == {u \in DOMAIN ds2 : u \notin DOMAIN ds \/ ds[u] # ds2[u]}

\* ds with the values under the UUIDs of B made unreadable
Blank(ds, B) == [u \in DOMAIN ds |-> IF u \in B THEN RawBytes ELSE ds[u]]

\* r is what ResolveMeta returned before this step, an AppendToFile of the
\* step's caller: the step writes the block at Last and the Metadata, leaves
\* the file's blocks as they were, and writes the same two values when the
\* file's blocks cannot be read
AppendFootprint(user, filename, content, r, blocks) ==
    /\ Written(datastore, datastore') = {r.meta.Last, r.metaUUID}
    /\ r.meta.Last \notin blocks
    /\ \A u \in blocks : datastore'[u] = datastore[u]
    /\ ~AppendToFileRes(Blank(datastore, blocks), user, filename, content,
                        Seed(FileCtx(user, filename))).err
    /\ \A u \in {r.meta.Last, r.metaUUID} :
          AppendToFileRes(Blank(datastore, blocks), user, filename, content,
                          Seed(FileCtx(user, filename))).ds[u] = datastore'[u]

\* the UUID of the Invitation List of the file user owns under filename
ListUUID(ds, user, filename) == ResolveAccess(ds, user, filename).access.InvitationList

\* user owns a file under filename, with its Invitation List in the store
OwnsList(ds, user, filename) ==
    /\ ~ResolveAccess(ds, user, filename).err
    /\ ResolveAccess(ds, user, filename).access.IsOwner
    /\ ListUUID(ds, user, filename) \in DOMAIN ds

\* every Invitation List of store ds has in ds2 the value it has in ds
ListsUnchanged(ds, ds2) ==
    \A o \in sessions, g \in Filenames :
        OwnsList(ds, o, g) => ds2[ListUUID(ds, o, g)] = ds[ListUUID(ds, o, g)]

\* value was written by EncryptThenMac under the keys of some source key
IsSealed(value) ==
    /\ UnpackValue(value)
    /\ value.Tag.k[1] = "hkdf"
    /\ value.Tag.k[Len(value.Tag.k)] = MAC

\* the source key whose HashKDF(., MAC) key made the tag of a sealed value
SourceKeyOf(value) == SubSeq(value.Tag.k, 2, Len(value.Tag.k) - 1)

\* opening the Invitation that user's Access under filename names, with the
\* source key that Access holds, fails in store ds2; ds is the store in which
\* the Access is read
InvitationHopFails(ds, ds2, user, filename) ==
    GetMetaUUIDAndSourceKey(ds2, ResolveAccess(ds, user, filename).access).err

\* value is a sealed Metadata struct
IsMeta(value) == IsSealed(value) /\ "Start" \in DOMAIN value.Msg.pt

\* the walk of LoadFile over the chain Metadata m describes ends at m.Last
\* with every block read
ChainEnds(ds, m) == ~ReadChain(ds, m.Start, m.Last, m.FileSourcekey, {}).err

\* both clients have called AppendToFile on one file that loaded when each
\* call began, and both calls have returned
RaceOver ==
    /\ DOMAIN calls = Clients
    /\ \A c \in Clients : calls[c].pc \in {"done", "failed"} /\ ~calls[c].prior.err
    /\ Root(accepted, issued, calls["p"].user.Username, calls["p"].filename)
          = Root(accepted, issued, calls["q"].user.Username, calls["q"].filename)

\* the content of the file before the first of the two calls began
RaceBase ==
    IF Len(calls["p"].prior.content) <= Len(calls["q"].prior.content)
    THEN calls["p"].prior.content ELSE calls["q"].prior.content

\* what a LoadFile returns that kept the prior content and at least one of
\* the two appended contents
RaceOutcomes ==
    {Loaded(RaceBase \o t) :
        t \in {ContentOf("p"), ContentOf("q"), ContentOf("p") \o ContentOf("q"),
               ContentOf("q") \o ContentOf("p")}}

\* the block stored at the Last both calls read is one call's and the
\* Metadata stored is the other's
RaceCrossed ==
    \E c \in Clients, d \in Clients :
        /\ c # d
        /\ calls[c].r.meta.Last = calls[d].r.meta.Last
        /\ calls[c].r.meta.Last \in DOMAIN datastore
        /\ CheckTagAndDecrypt(datastore[calls[c].r.meta.Last],
                              calls[c].r.meta.FileSourcekey).pt.Next
              = NewUUID(calls[c].seed, "next")
        /\ CheckTagAndDecrypt(datastore[calls[d].r.metaUUID],
                              calls[d].r.metaSourceKey).pt.Last
              = NewUUID(calls[d].seed, "next")

\* the entries of the Invitation List of the file user owns under filename
ListEntries(ds, user, filename) ==
    CheckTagAndDecrypt(ds[ListUUID(ds, user, filename)],
                       ResolveAccess(ds, user, filename).access.ListKey)

\* user created a token for filename and recipient that no successful
\* RevokeAccess of user has covered since
InvitedNotRevoked(user, filename, recipientUsername) ==
    \E t \in DOMAIN issued \ revokedTokens :
        issued[t] = [sender |-> user.Username, filename |-> filename,
                     recipient |-> recipientUsername]

\* the source keys under which the sealed values of store ds were written
SourceKeysIn(ds) == {SourceKeyOf(ds[u]) : u \in {v \in DOMAIN ds : IsSealed(ds[v])}}

\* r is what ResolveMeta returned for the owner before a RevokeAccess and r2
\* what it returns after: the Metadata kept its UUID and was re-keyed
Rekeyed(ds, ds2, r, r2) ==
    /\ ~r2.err
    /\ r2.metaUUID = r.metaUUID
    /\ r2.metaSourceKey \notin SourceKeysIn(ds)
    /\ r2.meta.Start \notin DOMAIN ds
    /\ r2.meta.FileSourcekey \notin SourceKeysIn(ds)
    /\ CheckTagAndDecrypt(ds2[r.metaUUID], r.metaSourceKey).err

\* r is what ResolveMeta returned before a StoreFile on a filename the
\* caller holds and r2 what it returns after: the call wrote the block at
\* Start and the Metadata, whose UUID, source key, Start and FileSourcekey
\* it kept and whose Last it replaced by a UUID new to the store
OverwriteFootprint(ds, ds2, r, r2) ==
    /\ Written(ds, ds2) = {r.meta.Start, r.metaUUID}
    /\ ~r2.err
    /\ r2.access = r.access
    /\ r2.metaUUID = r.metaUUID
    /\ r2.metaSourceKey = r.metaSourceKey
    /\ r2.meta.Start = r.meta.Start
    /\ r2.meta.FileSourcekey = r.meta.FileSourcekey
    /\ r2.meta.Last # r.meta.Last
    /\ r2.meta.Last \notin DOMAIN ds

\* the kinds of blob a call stores when it succeeds, in the order from the
\* File block to the Access
WritesOf(call) ==
    IF call.op \in {"append", "store"} THEN <<"file", "meta">>
    ELSE IF call.op = "create" THEN <<"file", "meta", "list", "access">>
    ELSE IF call.op = "revoke"
    THEN <<"file", "meta">>
         \o [i \in 1..Cardinality(DOMAIN call.invitations) |-> "invitation"]
         \o <<"list", "access">>
    ELSE << >>

\* user holds a share that a RevokeAccess cut off and no share that it did
\* not: a revoked recipient, or a user downstream of one
Revoked(user) ==
    /\ \E f \in Filenames : CutOff(accepted, issued, revokedTokens, user.Username, f)
    /\ \A f \in Filenames :
          IsShare(accepted, user.Username, f)
          => CutOff(accepted, issued, revokedTokens, user.Username, f)

\* the stores a call of user on filename can leave: StoreFile, AppendToFile,
\* CreateInvitation and AcceptInvitation with every argument
StoresAfterCallOf(user, filename) ==
    {StoreFileCall(user, filename, c).ds : c \in Contents}
    \cup {AppendToFileCall(user, filename, c).ds : c \in Contents}
    \cup {CreateInvitationCall(user, filename, r).ds : r \in Usernames}
    \cup {AcceptInvitationCall(user, issued[t].sender, t, filename).ds : t \in DOMAIN issued}

\* what LoadFile returns to every user whose hold on a file was not cut off
\* is the same in store ds2 as in store ds
SameLoads(ds, ds2) ==
    \A v \in sessions, f \in Filenames :
        /\ InNamespace(ds, v, f)
        /\ ~CutOff(accepted, issued, revokedTokens, v.Username, f)
        => LoadFileRes(ds2, v, f) = LoadFileRes(ds, v, f)

\* the revoker's RevokeAccess has returned nil and the writer's call, on the
\* same filename and by a user the revocation did not cut off, has returned
RevokeRaceOver ==
    /\ DOMAIN calls = {Writer, Revoker}
    /\ calls[Revoker].op = "revoke"
    /\ calls[Revoker].pc = "done"
    /\ calls[Writer].op \in {"append", "store"}
    /\ calls[Writer].pc \in {"done", "failed"}
    /\ calls[Writer].filename = calls[Revoker].filename
    /\ ~CutOff(accepted, issued, revokedTokens, calls[Writer].user.Username,
               calls[Writer].filename)

\* LoadFile of the owner who revoked succeeds
OwnerLoads == LoadOk(datastore, calls[Revoker].user, calls[Revoker].filename)

\* LoadFile of the revoked recipient succeeds under some filename
RecipientLoads ==
    \E s \in sessions, g \in Filenames :
        s.Username = calls[Revoker].recipient /\ LoadOk(datastore, s, g)

\* the Metadata in the store is the one the writer stored, sealed under the
\* metaSourceKey the writer read before the revocation replaced it
WriterMetaIsLast ==
    /\ calls[Writer].pc = "done"
    /\ SourceKeyOf(datastore[calls[Revoker].r.metaUUID]) = calls[Writer].r.metaSourceKey
    /\ calls[Writer].r.metaSourceKey # RevokeKey(calls[Revoker])

(***************************************************************************)
(* C1: once RevokeAccess(F, B) has succeeded, LoadFile and AppendToFile    *)
(* return an error for B and for every user downstream of B, on the name   *)
(* under which they hold the file, in every later state.                   *)
(***************************************************************************)
C1_RevokedCannotLoadOrAppend ==
    \A s \in sessions, f \in Filenames :
        CutOff(accepted, issued, revokedTokens, s.Username, f) =>
            /\ LoadFileRes(datastore, s, f).err
            /\ \A c \in Contents : AppendToFileCall(s, f, c).err

\* a revoked user and a user downstream of it hold cut-off shares, and the
\* owner has issued the revoked user a new invitation since the revocation
C1_Witness ==
    \E s1 \in sessions, s2 \in sessions, f1 \in Filenames, f2 \in Filenames :
        /\ IsShare(accepted, s1.Username, f1) /\ accepted[<<s1.Username, f1>>] \in revokedTokens
        /\ IsShare(accepted, s2.Username, f2)
        /\ issued[accepted[<<s2.Username, f2>>]].sender = s1.Username
        /\ issued[accepted[<<s2.Username, f2>>]].filename = f1
        /\ \E t \in DOMAIN issued \ revokedTokens :
              /\ issued[t].recipient = s1.Username
              /\ issued[t].sender = issued[accepted[<<s1.Username, f1>>]].sender

(***************************************************************************)
(* C2: once RevokeAccess(F, B) has succeeded, CreateInvitation on the      *)
(* revoked name returns an error for B and every user downstream of B,     *)
(* whoever the registered recipient is.                                    *)
(***************************************************************************)
C2_RevokedCannotInvite ==
    \A s \in sessions, f \in Filenames, r \in Usernames :
        (CutOff(accepted, issued, revokedTokens, s.Username, f) /\ Registered(r)) =>
            CreateInvitationCall(s, f, r).err

(***************************************************************************)
(* C3: when RevokeAccess(F, B) succeeds, the owner and every sharee other  *)
(* than B that is not cut off and could load the file before still load    *)
(* and append.                                                             *)
(***************************************************************************)
C3_SurvivorsKeepAccess ==
    [][\A s \in sessions, f \in Filenames, r \in UsernamesWide :
          RevokeSucceeds(s, f, r) =>
             /\ LoadOk(datastore', s, f) /\ AppendOk(datastore', s, f)
             /\ \A s2 \in sessions, f2 \in Filenames :
                   ( /\ s2.Username # r
                     /\ IsShare(accepted, s2.Username, f2)
                     /\ Root(accepted, issued, s2.Username, f2) = <<s.Username, f>>
                     /\ ~CutOff(accepted', issued', revokedTokens', s2.Username, f2)
                     /\ LoadOk(datastore, s2, f2) )
                   => (LoadOk(datastore', s2, f2) /\ AppendOk(datastore', s2, f2))]_vars

(***************************************************************************)
(* C4: RevokeAccess(F, R) by the owner, for an R with no entry in the      *)
(* Invitation List, returns an error and leaves the blob store unchanged.  *)
(***************************************************************************)
C4_FailedRevokeWritesNothing ==
    [][\A s \in sessions, f \in Filenames, r \in Usernames :
          (RevokeAccess(s, f, r) /\ OwnerWithoutEntry(datastore, s, f, r)) =>
             /\ RevokeAccessCall(s, f, r).err
             /\ datastore' = datastore]_vars

(***************************************************************************)
(* C5: StoreFile of content C under a filename that is not in the caller's *)
(* namespace, when it succeeds, makes LoadFile return exactly C (the empty *)
(* content included).                                                      *)
(***************************************************************************)
C5_StoreThenLoad ==
    [][\A s \in sessions, f \in Filenames, c \in ContentsFile :
          (~InNamespace(datastore, s, f) /\ StoreSucceeds(s, f, c)) =>
             LoadFileRes(datastore', s, f) = Loaded(c)]_vars

\* a new file that was stored with empty content and loads as such
C5_Witness ==
    \E s \in sessions, f \in Filenames :
        /\ LoadFileRes(datastore, s, f) = Loaded("")
        /\ Blocks(s, f) = 1
        /\ Count(FileCtx(s, f)) = 0

(***************************************************************************)
(* C6: a successful AppendToFile of content C makes LoadFile return what   *)
(* it returned before, followed by C; so after a StoreFile and successive  *)
(* appends LoadFile returns the stored content followed by the appended    *)
(* contents in the order of the appends.                                   *)
(***************************************************************************)
C6_AppendExtendsContent ==
    [][\A s \in sessions, f \in Filenames, c \in ContentsFile :
          AppendSucceeds(s, f, c) =>
             /\ LoadOk(datastore, s, f)
             /\ LoadFileRes(datastore', s, f)
                   = Loaded(LoadFileRes(datastore, s, f).content \o c)]_vars

\* a file of three blocks whose appended contents differ
C6_Witness ==
    \E s \in sessions, f \in Filenames :
        /\ Blocks(s, f) = 3
        /\ LoadFileRes(datastore, s, f) \in {Loaded("xxy"), Loaded("xyx"), Loaded("yxy")}

(***************************************************************************)
(* C7: StoreFile of content C on a filename that exists, when it succeeds, *)
(* makes LoadFile return exactly C: nothing stored or appended earlier is  *)
(* left.                                                                   *)
(***************************************************************************)
C7_OverwriteReplaces ==
    [][\A s \in sessions, f \in Filenames, c \in ContentsFile :
          (InNamespace(datastore, s, f) /\ StoreSucceeds(s, f, c)) =>
             LoadFileRes(datastore', s, f) = Loaded(c)]_vars

\* a file that was appended to and then overwritten: it has one block, its
\* context has drawn twice since the file was created, no revocation happened
C7_Witness ==
    \E s \in sessions, f \in Filenames :
        /\ LoadOk(datastore, s, f)
        /\ Blocks(s, f) = 1
        /\ Count(FileCtx(s, f)) >= 2
        /\ revokedTokens = {}

(***************************************************************************)
(* C8: if A shares F to B as G and B shares G to C as H and all three load *)
(* the file, then after a successful AppendToFile or StoreFile by A, B or  *)
(* C on their name all three loads succeed and return identical bytes.     *)
(***************************************************************************)
C8_ReadThrough ==
    [][\A sa \in sessions, sb \in sessions, sc \in sessions,
          f \in Filenames, g \in Filenames, h \in Filenames :
          ( /\ rng' # rng
            /\ SharedTo(sa, f, sb, g) /\ SharedTo(sb, g, sc, h)
            /\ LoadOk(datastore, sa, f) /\ LoadOk(datastore, sb, g) /\ LoadOk(datastore, sc, h)
            /\ (WriteSucceeds(sa, f) \/ WriteSucceeds(sb, g) \/ WriteSucceeds(sc, h)) )
          => /\ LoadOk(datastore', sa, f)
             /\ LoadFileRes(datastore', sb, g) = LoadFileRes(datastore', sa, f)
             /\ LoadFileRes(datastore', sc, h) = LoadFileRes(datastore', sa, f)]_vars

\* a chain A -> B -> C on a file that was written to after its creation and
\* that all three load with the same, several blocks long, content
C8_Witness ==
    \E sa \in sessions, sb \in sessions, sc \in sessions,
       f \in Filenames, g \in Filenames, h \in Filenames :
        /\ SharedTo(sa, f, sb, g) /\ SharedTo(sb, g, sc, h)
        /\ LoadOk(datastore, sa, f)
        /\ Blocks(sa, f) >= 2
        /\ LoadFileRes(datastore, sb, g) = LoadFileRes(datastore, sa, f)
        /\ LoadFileRes(datastore, sc, h) = LoadFileRes(datastore, sa, f)

(***************************************************************************)
(* C9: right after a successful AcceptInvitation by B of A's invitation to *)
(* F under the name G, LoadFile(G) by B succeeds and returns what          *)
(* LoadFile(F) by A returns.                                               *)
(***************************************************************************)
C9_PostAcceptEquivalence ==
    [][\A sb \in sessions, t \in DOMAIN issued, g \in Filenames :
          AcceptSucceeds(sb, issued[t].sender, t, g) =>
             /\ LoadOk(datastore', sb, g)
             /\ \A sa \in sessions :
                   sa.Username = issued[t].sender =>
                      LoadFileRes(datastore', sb, g)
                         = LoadFileRes(datastore', sa, issued[t].filename)]_vars

(***************************************************************************)
(* C10: a successful RevokeAccess leaves the content the owner loads       *)
(* unchanged.                                                              *)
(***************************************************************************)
C10_RevokeKeepsContent ==
    [][\A s \in sessions, f \in Filenames, r \in Usernames :
          RevokeSucceeds(s, f, r) =>
             /\ LoadOk(datastore, s, f)
             /\ LoadFileRes(datastore', s, f) = LoadFileRes(datastore, s, f)]_vars

\* an owner who revoked a recipient and loads a content of several blocks'
\* worth from the single block the revocation wrote
C10_Witness ==
    \E s \in sessions, f \in Filenames :
        /\ \E t \in revokedTokens : issued[t].sender = s.Username /\ issued[t].filename = f
        /\ LoadOk(datastore, s, f)
        /\ Blocks(s, f) = 1
        /\ Len(LoadFileRes(datastore, s, f).content) >= 2

(***************************************************************************)
(* C11: when the value of a blob is replaced by any different value, the   *)
(* next operation that authenticates the blob returns an error: a LoadFile *)
(* that read the blob before, and GetUser with the registration password   *)
(* when the blob is the User Record.                                       *)
(***************************************************************************)
C11_TamperingIsDetected ==
    [][\A u \in DOMAIN datastore :
          Tampers(u) =>
             /\ \A s \in sessions, f \in Filenames :
                   (LoadOk(datastore, s, f) /\ u \in LoadReads(datastore, s, f))
                       => /\ LoadFileRes(datastore', s, f).err
                          /\ ~LoadFileRes(datastore', s, f).diverges
             /\ \A n \in DOMAIN registered :
                   u = GetUserUUID(n) => GetUserRes(datastore', n, registered[n]).err]_vars

(***************************************************************************)
(* C12: filenames are private to each user.  When a user stores or appends *)
(* under a filename, a different user whose file of that name is not the   *)
(* same shared file loads what they loaded before, and the writer of a     *)
(* StoreFile loads the content just stored.                                *)
(***************************************************************************)
C12_FilenamesArePrivate ==
    [][\A s1 \in sessions, s2 \in sessions, f \in Filenames, c \in ContentsFile :
          (/\ s1.Username # s2.Username
           /\ Root(accepted, issued, s1.Username, f) # Root(accepted, issued, s2.Username, f)
           /\ StoreSucceeds(s1, f, c) \/ AppendSucceeds(s1, f, c))
          => /\ LoadFileRes(datastore', s2, f) = LoadFileRes(datastore, s2, f)
             /\ StoreSucceeds(s1, f, c) => LoadFileRes(datastore', s1, f) = Loaded(c)]_vars

\* two users hold different contents under the same filename
C12_Witness ==
    \E s1 \in sessions, s2 \in sessions, f \in Filenames :
        /\ s1.Username # s2.Username
        /\ ~IsShare(accepted, s1.Username, f) /\ ~IsShare(accepted, s2.Username, f)
        /\ LoadFileRes(datastore, s1, f) = Loaded("x")
        /\ LoadFileRes(datastore, s2, f) = Loaded("y")

(***************************************************************************)
(* C13: InitUser with the empty username, or with a username that is       *)
(* registered, returns an error and leaves the blob store and the key      *)
(* directory as they were.                                                 *)
(***************************************************************************)
C13_RegisterRejects ==
    \A u \in UsernamesUser, p \in Logins :
        (u = "" \/ u \in DOMAIN registered)
        => /\ InitUserRes(datastore, keystore, u, p, u).err
           /\ InitUserRes(datastore, keystore, u, p, u).ds = datastore
           /\ InitUserRes(datastore, keystore, u, p, u).ks = keystore

\* a registered username is registered again, with another password
C13_Witness ==
    \E u \in DOMAIN registered, p \in Logins :
        /\ p # registered[u]
        /\ InitUserRes(datastore, keystore, u, p, u).err
        /\ InitUserRes(datastore, keystore, "", p, "").err

(***************************************************************************)
(* C14: GetUser(u, p) returns a session exactly when u is not empty, u was *)
(* registered with password p and the adversary has not replaced u's User  *)
(* Record; the session it returns carries the username u.                  *)
(***************************************************************************)
C14_LoginExactly ==
    \A u \in UsernamesUser, p \in Logins :
        /\ ~GetUserRes(datastore, u, p).err
              <=> (/\ u # ""
                   /\ u \in DOMAIN registered
                   /\ registered[u] = p
                   /\ GetUserUUID(u) \notin tampered)
        /\ ~GetUserRes(datastore, u, p).err => GetUserRes(datastore, u, p).user.Username = u

\* one user logs in with the registration password, another user's record
\* was replaced and their login fails
C14_Witness ==
    \E u \in DOMAIN registered, v \in DOMAIN registered :
        /\ ~GetUserRes(datastore, u, registered[u]).err
        /\ GetUserRes(datastore, u, registered[u]).user \in sessions
        /\ GetUserUUID(v) \in tampered
        /\ GetUserRes(datastore, v, registered[v]).err

(***************************************************************************)
(* C15: every failed GetUser with a non-empty username returns the same    *)
(* error, whether the username is not registered, the password is wrong or *)
(* the User Record was replaced.                                           *)
(***************************************************************************)
C15_LoginErrorsAlike ==
    \A u \in UsernamesUser \ {""}, v \in UsernamesUser \ {""}, p \in Logins, q \in Logins :
        (GetUserRes(datastore, u, p).err /\ GetUserRes(datastore, v, q).err)
        => GetUserRes(datastore, u, p).msg = GetUserRes(datastore, v, q).msg

(***************************************************************************)
(* C16: the sessions of one user are interchangeable.  In every state,     *)
(* whatever operations were completed through any session, LoadFile        *)
(* returns the same through every session of the user, and through the     *)
(* session a GetUser made now returns.                                     *)
(***************************************************************************)
C16_SessionsInterchangeable ==
    \A s \in sessions, f \in Filenames :
        /\ \A s2 \in sessions :
              s2.Username = s.Username
              => LoadFileRes(datastore, s2, f) = LoadFileRes(datastore, s, f)
        /\ \A p \in Logins :
              ~GetUserRes(datastore, s.Username, p).err
              => LoadFileRes(datastore, GetUserRes(datastore, s.Username, p).user, f)
                    = LoadFileRes(datastore, s, f)

\* after a StoreFile, an AppendToFile, a CreateInvitation and a RevokeAccess
\* of the owner, a new login of the owner loads the file
C16_Witness ==
    \E s \in sessions, f \in Filenames, p \in Logins :
        /\ revokedTokens # {}
        /\ Blocks(s, f) = 1
        /\ ~IsShare(accepted, s.Username, f)
        /\ ~GetUserRes(datastore, s.Username, p).err
        /\ LoadFileRes(datastore, GetUserRes(datastore, s.Username, p).user, f) = Loaded("xy")

(***************************************************************************)
(* C17: RevokeAccess called by a user who is not the owner of the file (a  *)
(* sharee, or a user who does not have the filename) returns an error and  *)
(* leaves the blob store as it was.                                        *)
(***************************************************************************)
C17_OnlyOwnerRevokes ==
    \A s \in sessions, f \in Filenames, r \in Usernames :
        (IsShare(accepted, s.Username, f) \/ ~InNamespace(datastore, s, f))
        => /\ RevokeAccessCall(s, f, r).err
           /\ ~RevokeAccessCall(s, f, r).diverges
           /\ RevokeAccessCall(s, f, r).ds = datastore

\* a sharee who loads the file and a user without the filename both call
\* RevokeAccess
C17_Witness ==
    \E s \in sessions, s2 \in sessions, f \in Filenames :
        /\ IsShare(accepted, s.Username, f)
        /\ LoadOk(datastore, s, f)
        /\ ~InNamespace(datastore, s2, f)
        /\ RevokeAccessCall(s, f, s2.Username).err
        /\ ~RevokeAccessCall(s, f, s2.Username).diverges
        /\ RevokeAccessCall(s2, f, s.Username).err
        /\ ~RevokeAccessCall(s2, f, s.Username).diverges

(***************************************************************************)
(* C18: RevokeAccess(F, R) called by the owner of F returns an error when  *)
(* R was sent an invitation to F and has not accepted it.                  *)
(***************************************************************************)
C18_RevokeOfPendingInviteFails ==
    \A s \in sessions, f \in Filenames, r \in Usernames :
        (/\ InNamespace(datastore, s, f)
         /\ ~IsShare(accepted, s.Username, f)
         /\ InvitedNotAccepted(s, f, r))
        => RevokeAccessCall(s, f, r).err

(***************************************************************************)
(* C19: CreateInvitation returns an error and the nil token, and leaves    *)
(* the blob store as it was, when the recipient has no public key in the   *)
(* key directory, when the recipient is the caller, and when the filename  *)
(* is not in the caller's namespace.                                       *)
(***************************************************************************)
C19_CreateInvitationRejects ==
    \A s \in sessions, f \in Filenames, r \in Usernames :
        (~Registered(r) \/ r = s.Username \/ ~InNamespace(datastore, s, f))
        => /\ CreateInvitationCall(s, f, r).err
           /\ CreateInvitationCall(s, f, r).token = NilUUID
           /\ CreateInvitationCall(s, f, r).ds = datastore

\* the holder of a file invites a user who is not registered and invites
\* themselves, and a user without the filename invites the holder
C19_Witness ==
    \E s \in sessions, s2 \in sessions, f \in Filenames, r \in Usernames :
        /\ LoadOk(datastore, s, f)
        /\ ~Registered(r)
        /\ CreateInvitationCall(s, f, r).err
        /\ CreateInvitationCall(s, f, s.Username).err
        /\ ~InNamespace(datastore, s2, f)
        /\ CreateInvitationCall(s2, f, s.Username).err

(***************************************************************************)
(* C20: AcceptInvitation returns an error and leaves the blob store as it  *)
(* was when the caller has an Access under the chosen filename (an own     *)
(* file or an accepted share), so the caller's file of that name loads     *)
(* what it loaded before.                                                  *)
(***************************************************************************)
C20_AcceptKeepsExistingFile ==
    \A s \in sessions, t \in DOMAIN issued, f \in Filenames :
        InNamespace(datastore, s, f)
        => /\ AcceptInvitationCall(s, issued[t].sender, t, f).err
           /\ AcceptInvitationCall(s, issued[t].sender, t, f).ds = datastore

\* a user who holds a share under the filename is sent a second token, which
\* only the occupied slot keeps them from accepting
C20_Witness ==
    \E s \in sessions, t \in DOMAIN issued, f \in Filenames :
        /\ IsShare(accepted, s.Username, f)
        /\ LoadOk(datastore, s, f)
        /\ issued[t].recipient = s.Username
        /\ t # accepted[<<s.Username, f>>]
        /\ AcceptInvitationCall(s, issued[t].sender, t, f).err

(***************************************************************************)
(* C21: AcceptInvitation(sender, token, filename) called by R returns no   *)
(* error only if the value stored at token was written by a                *)
(* CreateInvitation call of the user named sender with recipient R; in     *)
(* every other case it returns an error and leaves the store as it was.    *)
(***************************************************************************)
C21_AcceptOnlyFromSenderToRecipient ==
    \A s \in sessions, sender \in Usernames, t \in DOMAIN datastore, f \in Filenames :
        \/ /\ t \in DOMAIN issued
           /\ issued[t].sender = sender
           /\ issued[t].recipient = s.Username
        \/ /\ AcceptInvitationCall(s, sender, t, f).err
           /\ AcceptInvitationCall(s, sender, t, f).ds = datastore

\* a token its recipient can accept is refused under another sender's name
\* and refused to another user, both with a free slot
C21_Witness ==
    \E s \in sessions, s2 \in sessions, t \in DOMAIN issued, f \in Filenames :
        /\ issued[t].recipient = s.Username
        /\ s2.Username \notin {issued[t].sender, s.Username}
        /\ ~InNamespace(datastore, s, f) /\ ~InNamespace(datastore, s2, f)
        /\ ~AcceptInvitationCall(s, issued[t].sender, t, f).err
        /\ AcceptInvitationCall(s, s2.Username, t, f).err
        /\ AcceptInvitationCall(s2, issued[t].sender, t, f).err

(***************************************************************************)
(* C22: a token is one-shot.  Once an AcceptInvitation with a token has    *)
(* returned no error, every AcceptInvitation with that token returns an    *)
(* error, whatever the filename chosen.                                    *)
(***************************************************************************)
C22_TokenIsOneShot ==
    \A s \in sessions, t \in DOMAIN issued, f \in FilenamesNames :
        (\E slot \in DOMAIN accepted : accepted[slot] = t)
        => AcceptInvitationCall(s, issued[t].sender, t, f).err

(***************************************************************************)
(* C23: an AppendToFile that succeeds writes one File block, at the        *)
(* Metadata's Last, and the Metadata, and nothing else; the blocks the     *)
(* file had are unchanged, and the call reads none of them: it writes the  *)
(* same values when they cannot be read.                                   *)
(***************************************************************************)
C23_AppendWritesOneBlock ==
    [][\A s \in sessions, f \in Filenames, c \in ContentsFile :
          AppendSucceeds(s, f, c)
          => AppendFootprint(s, f, c, ResolveMeta(datastore, s, f),
                             ChainUUIDs(datastore,
                                        ResolveMeta(datastore, s, f).meta.Start,
                                        ResolveMeta(datastore, s, f).meta.Last,
                                        ResolveMeta(datastore, s, f).meta.FileSourcekey))]_vars

\* a file of three blocks, the last two written by AppendToFile
C23_Witness ==
    \E s \in sessions, f \in Filenames :
        /\ Blocks(s, f) = 3
        /\ LoadFileRes(datastore, s, f) = Loaded("xyx")

(***************************************************************************)
(* C24: CreateInvitation called by a sharee who can load the file, for a   *)
(* registered recipient other than the caller, returns no error and leaves *)
(* every Invitation List as it was; a step that changes an Invitation List *)
(* is a CreateInvitation or a RevokeAccess of the list's owner.            *)
(***************************************************************************)
C24_OnlyOwnerChangesList ==
    /\ [](\A s \in sessions, f \in Filenames, r \in Usernames :
            (/\ IsShare(accepted, s.Username, f)
             /\ LoadOk(datastore, s, f)
             /\ Registered(r)
             /\ r # s.Username)
            => /\ ~CreateInvitationCall(s, f, r).err
               /\ ListsUnchanged(datastore, CreateInvitationCall(s, f, r).ds))
    /\ [][\A o \in sessions, f \in Filenames :
            (OwnsList(datastore, o, f)
             /\ datastore'[ListUUID(datastore, o, f)] # datastore[ListUUID(datastore, o, f)])
            => \E r \in Usernames : CreateInvitation(o, f, r) \/ RevokeAccess(o, f, r)]_vars

\* a sharee has created a token for a third user while the owner's list
\* holds the sharee's Invitation only
C24_Witness ==
    \E o \in sessions, s \in sessions, f \in Filenames, t \in DOMAIN issued :
        /\ OwnsList(datastore, o, f)
        /\ IsShare(accepted, s.Username, f)
        /\ LoadOk(datastore, s, f)
        /\ issued[t].sender = s.Username
        /\ ~OwnerWithoutEntry(datastore, o, f, s.Username)
        /\ OwnerWithoutEntry(datastore, o, f, issued[t].recipient)

(***************************************************************************)
(* C25: the source key that seals a blob is not among the data visible in  *)
(* the blob store: no UUID of the store, and in particular not the blob's  *)
(* own UUID, is the source key of a stored blob.                           *)
(***************************************************************************)
C25_SourceKeysNotVisible ==
    \A u \in DOMAIN datastore :
        IsSealed(datastore[u]) => SourceKeyOf(datastore[u]) \notin DOMAIN datastore

(***************************************************************************)
(* C26: after a RevokeAccess(F, B) of A that succeeds, the Invitation from *)
(* A to B no longer opens under the source key B's Access holds: B's       *)
(* resolution fails at the Invitation.                                     *)
(***************************************************************************)
C26_RevokedInvitationDoesNotOpen ==
    [][\A s \in sessions, f \in Filenames, r \in Usernames :
          RevokeSucceeds(s, f, r)
          => \A sb \in sessions, g \in Filenames :
                (sb.Username = r /\ SharedTo(s, f, sb, g) /\ LoadOk(datastore, sb, g))
                => InvitationHopFails(datastore, datastore', sb, g)]_vars

(***************************************************************************)
(* C27: when A has invited B and revoked B before B accepted anything, an  *)
(* AcceptInvitation of B with the token created before the revocation      *)
(* returns an error and leaves the store as it was.                        *)
(***************************************************************************)
C27_RevokedTokenIsRefused ==
    \A sb \in sessions, t \in revokedTokens, f \in Filenames :
        (/\ issued[t].recipient = sb.Username
         /\ \A slot \in DOMAIN accepted : slot[1] # sb.Username)
        => /\ AcceptInvitationCall(sb, issued[t].sender, t, f).err
           /\ AcceptInvitationCall(sb, issued[t].sender, t, f).ds = datastore

(***************************************************************************)
(* C28: an operation that returns an error has written nothing: the store  *)
(* it leaves is the store it found.                                        *)
(***************************************************************************)
C28_ErrorsWriteNothing ==
    \A s \in sessions, f \in Filenames :
        /\ \A c \in Contents :
              /\ StoreFileCall(s, f, c).err => StoreFileCall(s, f, c).ds = datastore
              /\ AppendToFileCall(s, f, c).err => AppendToFileCall(s, f, c).ds = datastore
        /\ \A r \in Usernames :
              /\ CreateInvitationCall(s, f, r).err => CreateInvitationCall(s, f, r).ds = datastore
              /\ RevokeAccessCall(s, f, r).err => RevokeAccessCall(s, f, r).ds = datastore
        /\ \A t \in DOMAIN datastore, sender \in Usernames :
              AcceptInvitationCall(s, sender, t, f).err
              => AcceptInvitationCall(s, sender, t, f).ds = datastore

(***************************************************************************)
(* C29: after every completed operation, for every Metadata in the store,  *)
(* following Next from Start reaches Last after finitely many File blocks, *)
(* each present and opening under FileSourcekey, and no blob is stored at  *)
(* Last.                                                                   *)
(***************************************************************************)
C29_ChainsEndAtLast ==
    \A u \in DOMAIN datastore :
        IsMeta(datastore[u])
        => /\ ChainEnds(datastore, datastore[u].Msg.pt)
           /\ datastore[u].Msg.pt.Last \notin DOMAIN datastore

\* after a revocation, a Metadata whose chain has two blocks
C29_Witness ==
    \E u \in DOMAIN datastore :
        /\ IsMeta(datastore[u])
        /\ revokedTokens # {}
        /\ ChainLength(datastore, datastore[u].Msg.pt.Start, datastore[u].Msg.pt.Last,
                       datastore[u].Msg.pt.FileSourcekey) = 2

(***************************************************************************)
(* C30: when two AppendToFile calls on one file, interleaved at their      *)
(* blob-store accesses, have both returned, both returned no error and     *)
(* LoadFile returns the prior content followed by at least one of the two  *)
(* appended contents.                                                      *)
(***************************************************************************)
C30_RacingAppendsKeepFile ==
    RaceOver
    => /\ \A c \in Clients : calls[c].pc = "done"
       /\ \A c \in Clients :
             LoadFileRes(datastore, calls[c].user, calls[c].filename) \in RaceOutcomes

(***************************************************************************)
(* C30, amended: both calls return no error; afterwards LoadFile returns   *)
(* the prior content followed by at least one of the two appended          *)
(* contents, except when the block stored at the Last both calls read is   *)
(* one call's and the stored Metadata is the other's: then LoadFile        *)
(* returns an error and no content.                                        *)
(***************************************************************************)
C30_RacingAppendsKeepOrLoseFile ==
    RaceOver
    => /\ \A c \in Clients : calls[c].pc = "done"
       /\ \A c \in Clients :
             IF RaceCrossed
             THEN /\ LoadFileRes(datastore, calls[c].user, calls[c].filename).err
                  /\ ~LoadFileRes(datastore, calls[c].user, calls[c].filename).diverges
             ELSE LoadFileRes(datastore, calls[c].user, calls[c].filename) \in RaceOutcomes

\* the owner's and a sharee's calls have both returned and the file no
\* longer loads
C30_Witness ==
    /\ RaceOver
    /\ RaceCrossed
    /\ calls["p"].user.Username # calls["q"].user.Username
    /\ \A c \in Clients : LoadFileRes(datastore, calls[c].user, calls[c].filename).err

(***************************************************************************)
(* C31: for every file and its owner, each entry of the Invitation List    *)
(* names a stored blob that opens under the entry's key and holds the      *)
(* MetaUUID and MetaSourcekey of the owner's Access; and a recipient has   *)
(* an entry exactly when the owner created an invitation for them that no  *)
(* later successful RevokeAccess has removed.                              *)
(***************************************************************************)
C31_ListMatchesInvitations ==
    \A o \in sessions, f \in Filenames :
        OwnsList(datastore, o, f) =>
            /\ ~ListEntries(datastore, o, f).err
            /\ \A u \in DOMAIN ListEntries(datastore, o, f).pt.Invitations :
                  /\ u \in DOMAIN datastore
                  /\ CheckTagAndDecrypt(datastore[u],
                                        ListEntries(datastore, o, f).pt.Invitations[u])
                        = [err |-> FALSE,
                           pt |-> [MetaUUID |-> ResolveAccess(datastore, o, f).access.MetaUUID,
                                   MetaSourcekey |->
                                       ResolveAccess(datastore, o, f).access.MetaSourcekey]]
            /\ \A r \in Usernames :
                  GetInvitationUUID(o, r, f) \in DOMAIN ListEntries(datastore, o, f).pt.Invitations
                  <=> InvitedNotRevoked(o, f, r)

\* the owner has revoked one recipient and the list still holds another, whose
\* Invitation was re-sealed
C31_Witness ==
    \E o \in sessions, f \in Filenames, r \in Usernames :
        /\ OwnsList(datastore, o, f)
        /\ revokedTokens # {}
        /\ InvitedNotRevoked(o, f, r)
        /\ GetInvitationUUID(o, r, f) \in DOMAIN ListEntries(datastore, o, f).pt.Invitations
        /\ \E t \in revokedTokens : issued[t].sender = o.Username /\ issued[t].recipient # r

(***************************************************************************)
(* C32: for one owner, different (filename, sharee) pairs have different   *)
(* Invitation UUIDs and no Invitation UUID is one of the owner's Access    *)
(* UUIDs, so that a CreateInvitation that succeeds leaves the stored       *)
(* Invitation of every other pair and every Access record of the sender    *)
(* as they were.                                                           *)
(***************************************************************************)
C32_InvitationSlotsDistinct ==
    \A o \in sessions, f \in FilenamesConcat, r \in UsernamesConcat :
        ~CreateInvitationCall(o, f, r).err =>
            /\ \A g \in FilenamesConcat, q \in UsernamesConcat :
                  /\ <<g, q>> # <<f, r>>
                  /\ GetInvitationUUID(o, q, g) \in DOMAIN datastore
                  => CreateInvitationCall(o, f, r).ds[GetInvitationUUID(o, q, g)]
                        = datastore[GetInvitationUUID(o, q, g)]
            /\ \A g \in FilenamesConcat :
                  GetAccessUUID(o, g) \in DOMAIN datastore
                  => CreateInvitationCall(o, f, r).ds[GetAccessUUID(o, g)]
                        = datastore[GetAccessUUID(o, g)]

(***************************************************************************)
(* C33: when the owner of F calls CreateInvitation(F, R) again for a       *)
(* recipient R who holds F by an earlier invitation of the owner that was  *)
(* not revoked, and the call succeeds, LoadFile and AppendToFile of R on   *)
(* R's name for the file succeed afterwards as they did before.            *)
(***************************************************************************)
C33_ReinviteKeepsAccess ==
    \A o \in sessions, R \in sessions, f \in Filenames, g \in Filenames :
        /\ OwnsList(datastore, o, f)
        /\ SharedTo(o, f, R, g)
        /\ accepted[<<R.Username, g>>] \notin revokedTokens
        /\ LoadOk(datastore, R, g)
        /\ AppendOk(datastore, R, g)
        /\ ~CreateInvitationCall(o, f, R.Username).err
        => /\ LoadOk(CreateInvitationCall(o, f, R.Username).ds, R, g)
           /\ AppendOk(CreateInvitationCall(o, f, R.Username).ds, R, g)

(***************************************************************************)
(* C34: after a RevokeAccess that succeeds the Metadata is stored at the   *)
(* metaUUID it had, sealed under a metaSourceKey no stored blob was sealed *)
(* under before, and holds a Start that was not in the store and a         *)
(* FileSourcekey no stored blob was sealed under; the metaSourceKey from   *)
(* before the call no longer opens the blob at metaUUID, and the owner's   *)
(* Access holds the new metaSourceKey.                                     *)
(***************************************************************************)
C34_RevokeRekeysMeta ==
    [][\A o \in sessions, f \in Filenames, r \in Usernames :
          RevokeSucceeds(o, f, r) =>
              /\ ~ResolveMeta(datastore, o, f).err
              /\ Rekeyed(datastore, datastore', ResolveMeta(datastore, o, f),
                         ResolveMeta(datastore', o, f))
              /\ ResolveAccess(datastore', o, f).access.MetaSourcekey
                    = SourceKeyOf(datastore'[ResolveMeta(datastore, o, f).metaUUID])]_vars

\* a revoked recipient's Invitation still holds the metaSourceKey from before
\* the revocation, which no longer opens the Metadata the owner reads
C34_Witness ==
    \E o \in sessions, f \in Filenames, t \in revokedTokens :
        /\ issued[t].sender = o.Username
        /\ OwnsList(datastore, o, f)
        /\ LoadOk(datastore, o, f)
        /\ LET old == datastore[GetInvitationUUID(o, issued[t].recipient, f)].Msg.pt
           IN  /\ old.MetaUUID = ResolveMeta(datastore, o, f).metaUUID
               /\ old.MetaSourcekey # ResolveMeta(datastore, o, f).metaSourceKey
               /\ CheckTagAndDecrypt(datastore[old.MetaUUID], old.MetaSourcekey).err

(***************************************************************************)
(* C35: a StoreFile that succeeds on a filename its caller holds, as owner *)
(* or as sharee, writes the File block at Start and the Metadata with a    *)
(* new Last and nothing else: the Metadata's UUID, source key, Start and   *)
(* FileSourcekey and every Access, Invitation and Invitation List stay as  *)
(* they were.                                                              *)
(***************************************************************************)
C35_OverwriteFrame ==
    [][\A s \in sessions, f \in Filenames, c \in Contents :
          (InNamespace(datastore, s, f) /\ StoreSucceeds(s, f, c))
          => OverwriteFootprint(datastore, datastore', ResolveMeta(datastore, s, f),
                                ResolveMeta(datastore', s, f))]_vars

\* a file with an accepted share and an entry in the Invitation List whose
\* one block was written by an overwrite, which owner and sharee load
C35_Witness ==
    \E o \in sessions, R \in sessions, f \in Filenames :
        /\ SharedTo(o, f, R, f)
        /\ OwnsList(datastore, o, f)
        /\ DOMAIN ListEntries(datastore, o, f).pt.Invitations # {}
        /\ Blocks(o, f) = 1
        /\ Count(FileCtx(o, f)) >= 3
        /\ revokedTokens = {}
        /\ LoadOk(datastore, R, f)
        /\ ResolveMeta(datastore, o, f).meta.Last = NewUUID(FileCtx(o, f) \o "#2", "next")

(***************************************************************************)
(* C36: every call stores its blobs from leaf to root: a RevokeAccess that *)
(* succeeds stores the new File block, the Metadata, every Invitation left *)
(* in the list, the Invitation List and the owner's Access, in this order; *)
(* a StoreFile that creates a file stores File block, Metadata, Invitation *)
(* List and Access; AppendToFile and an overwriting StoreFile store the    *)
(* File block and then the Metadata.  At every moment what a call has      *)
(* stored is a beginning of that order.                                    *)
(***************************************************************************)
C36_WritesLeafToRoot ==
    \A c \in DOMAIN calls :
        /\ Len(calls[c].wrote) <= Len(WritesOf(calls[c]))
        /\ SubSeq(WritesOf(calls[c]), 1, Len(calls[c].wrote)) = calls[c].wrote
        /\ calls[c].pc = "done" => calls[c].wrote = WritesOf(calls[c])

\* a RevokeAccess that re-sealed an Invitation has returned, and so has the
\* writer's call
C36_Witness ==
    /\ DOMAIN calls = {Writer, Revoker}
    /\ calls[Revoker].pc = "done"
    /\ calls[Revoker].wrote = <<"file", "meta", "invitation", "list", "access">>
    /\ calls[Writer].pc = "done"
    /\ calls[Writer].wrote = <<"file", "meta">>

(***************************************************************************)
(* C37: the Metadata of a file has Start equal to Last exactly when the    *)
(* content LoadFile returns is empty, and Start different from Last        *)
(* exactly when it is not.                                                 *)
(***************************************************************************)
C37_StartIsLastIffEmpty ==
    \A s \in sessions, f \in Filenames :
        LoadOk(datastore, s, f) =>
            (ResolveMeta(datastore, s, f).meta.Start = ResolveMeta(datastore, s, f).meta.Last
             <=> LoadFileRes(datastore, s, f).content = "")

(***************************************************************************)
(* C37, as the code has it: the Metadata of a file never has Start equal   *)
(* to Last, whether the content is empty or not.  Every stored Metadata    *)
(* names as Start a block that is in the store, and as Last a UUID that is *)
(* not: a file of empty content is a chain of one or more blocks whose     *)
(* Contents are empty.                                                     *)
(***************************************************************************)
C37_StartIsNeverLast ==
    \A u \in DOMAIN datastore :
        IsMeta(datastore[u]) =>
            /\ datastore[u].Msg.pt.Start # datastore[u].Msg.pt.Last
            /\ datastore[u].Msg.pt.Start \in DOMAIN datastore
            /\ datastore[u].Msg.pt.Last \notin DOMAIN datastore

\* a file stored with empty content and appended to with empty content: two
\* blocks, and LoadFile returns the empty content
C37_Witness ==
    \E s \in sessions, f \in Filenames :
        /\ LoadFileRes(datastore, s, f) = Loaded("")
        /\ Blocks(s, f) = 2
        /\ ResolveMeta(datastore, s, f).meta.Start # ResolveMeta(datastore, s, f).meta.Last

(***************************************************************************)
(* C38: once RevokeAccess(F, B) has succeeded, no StoreFile, AppendToFile, *)
(* CreateInvitation or AcceptInvitation called by B or by a user           *)
(* downstream of B, on any filename, changes what LoadFile of F returns to *)
(* the owner or to a sharee who was not revoked.                           *)
(***************************************************************************)
C38_RevokedCannotChangeContent ==
    \A u \in sessions :
        Revoked(u) =>
            \A g \in FilenamesNames :
                \A ds2 \in StoresAfterCallOf(u, g) : SameLoads(datastore, ds2)

\* a revoked user whose AppendToFile fails and whose CreateInvitation on the
\* revoked name still writes to the store, while the owner loads the file
C38_Witness ==
    \E u \in sessions, o \in sessions, f \in Filenames, r \in Usernames :
        /\ Revoked(u)
        /\ InNamespace(datastore, u, f)
        /\ ~AppendOk(datastore, u, f)
        /\ ~CreateInvitationCall(u, f, r).err
        /\ CreateInvitationCall(u, f, r).ds # datastore
        /\ OwnsList(datastore, o, f)
        /\ LoadOk(datastore, o, f)

(***************************************************************************)
(* C39: when an AppendToFile or StoreFile of a session that is not revoked *)
(* overlaps with the owner's RevokeAccess(F, B), their store accesses      *)
(* interleaved one by one, then once both calls have returned LoadFile     *)
(* fails for B and succeeds for the owner.                                 *)
(***************************************************************************)
C39_RevokeSurvivesRace ==
    RevokeRaceOver => OwnerLoads /\ ~RecipientLoads

(***************************************************************************)
(* C39, as the code has it: once both calls have returned, either LoadFile *)
(* fails for B and succeeds for the owner, or the writer read the Metadata *)
(* before the revocation stored the re-keyed one and stored its own after  *)
(* it: the Metadata left in the store is then sealed under the             *)
(* metaSourceKey from before the revocation, and LoadFile fails for the    *)
(* owner, whose Access holds the new key (B's Invitation still holds the   *)
(* old one, so B may load the file again).                                 *)
(***************************************************************************)
C39_RevokeSurvivesOrIsOverwritten ==
    RevokeRaceOver =>
        \/ OwnerLoads /\ ~RecipientLoads
        \/ WriterMetaIsLast /\ ~OwnerLoads

\* both calls have returned nil, the writer's Metadata is the one in the
\* store, the owner cannot load the file and the revoked recipient can
C39_Witness ==
    /\ RevokeRaceOver
    /\ WriterMetaIsLast
    /\ ~OwnerLoads
    /\ RecipientLoads

(***************************************************************************)
(* C40: LoadFile always returns, with the content or with an error, in     *)
(* every state of the store that calls of the client reach, interleaved    *)
(* calls included: the walk from Start along the Next pointers never comes *)
(* to a block a second time, and a LoadFile call that has begun reaches    *)
(* its return.                                                             *)
(***************************************************************************)
C40_LoadTerminates ==
    /\ [](\A s \in sessions, f \in Filenames : ~LoadFileRes(datastore, s, f).diverges)
    /\ (Reader \in DOMAIN calls)
          ~> (Reader \in DOMAIN calls /\ calls[Reader].pc \in {"done", "failed"})

\* a LoadFile that read two blocks has returned while the writer's call, which
\* began before it returned, is still running
C40_Witness ==
    /\ Reader \in DOMAIN calls
    /\ calls[Reader].pc = "done"
    /\ Len(calls[Reader].loaded) >= 2
    /\ Writer \in DOMAIN calls
    /\ calls[Writer].pc \notin {"done", "failed"}

====
